---- MODULE Spec2Model ----
(***************************************************************************)
(* Model of the MEXC copy-trading engine: the master-position watcher      *)
(* (CopyTradingEngine.checkMasterChanges), the sequential per-account      *)
(* batches (manualOpenPosition, manualClosePosition, setTpSlOnAll,         *)
(* handleTradeSignal, handleAlignSignal) and the deferred timers they arm. *)
(* Every await of a batch is a step boundary, the callback of a timer is   *)
(* one step; the exchange is the environment and answers each call with    *)
(* success or failure.                                                     *)
(***************************************************************************)
EXTENDS Integers, Sequences, FiniteSets, TLC

VARIABLES
    accounts,            \* config.accounts: the roster, a sequence of account ids
    acct,                \* the AccountConfig objects, by id (shared by reference)
    clients,             \* ClientManager.clients: ids with an initialised client
    settings,            \* config.settings
    positions,           \* exchange: live open positions of every account
    lastKnownPositions,  \* CopyTradingEngine.lastKnownPositions
    tick,                \* the polling tick in progress (checkMasterChanges)
    batch,               \* the command / signal batch in progress
    timers,              \* the one-shot timers armed with setTimeout, still to run
    lastRun,             \* what the timer callback of the step just taken did
    intent,              \* the inputs of one per-account order: reference, account, settings
    order                \* the order derived from the intent for that account

vars == <<accounts, acct, clients, settings, positions,
          lastKnownPositions, tick, batch, timers, lastRun, intent, order>>

(***************************************************************************)
(* Data                                                                    *)
(***************************************************************************)
AccountIds == {"a1", "a2", "a3"}
Symbols == {"BTC_USDT", "ETH_USDT"}
Sides == {"long", "short"}
Volumes == {1, 2}
\* neither a timer callback nor a submitOrder call ended in the step just taken
NoRun == [kind |-> "none"]

\* no order is being derived
NoIntent == [family |-> "none"]

NoOrder == [flow |-> "none"]

NoAccount == "none"

\* Math.random() is drawn from the grid {0, 1/RandSteps, ..., (RandSteps-1)/RandSteps}
RandSteps == 3
RandGrid == 0..(RandSteps - 1)

\* the exchange lists positions in a fixed order of (symbol, side)
KeyOrder ==
    << <<"BTC_USDT", "long">>, <<"BTC_USDT", "short">>,
       <<"ETH_USDT", "long">>, <<"ETH_USDT", "short">> >>

Key(p) == <<p.symbol, p.side>>

Range(s) == {s[i] : i \in 1..Len(s)}

OnePerKey(S) == \A p, q \in S : Key(p) = Key(q) => p = q

\* the list the exchange returns for a set of live positions
RECURSIVE ListUpTo(_, _)
ListUpTo(S, n) ==
    IF n = 0 THEN <<>>
    ELSE LET ps == {p \in S : Key(p) = KeyOrder[n]}
         IN  IF ps = {} THEN ListUpTo(S, n - 1)
             ELSE Append(ListUpTo(S, n - 1), CHOOSE p \in ps : TRUE)

ToList(S) == ListUpTo(S, Len(KeyOrder))

(***************************************************************************)
(* ConfigStorage                                                           *)
(***************************************************************************)
\* DEFAULT_SETTINGS, with the delay and cancel-time bounds scaled down
DefaultSettings ==
    [delayMinMs |-> 0, delayMaxMs |-> 1,
     copyOpenPositions |-> TRUE, copyClosePositions |-> TRUE,
     signalsEnabled |-> TRUE,
     signalEntryOffset |-> 0, signalTpOffset |-> 1,
     signalCancelTimeMin |-> 1, signalCancelTimeMax |-> 2]

getEnabledAccounts ==
    LET Keep(a) == acct[a].enabled IN SelectSeq(accounts, Keep)

\* a slave list that does not leave the master out
getSlaveAccountsAnyRole ==
    LET Keep(a) == acct[a].enabled IN SelectSeq(accounts, Keep)

getSlaveAccounts ==
    LET Keep(a) == ~acct[a].isMaster /\ acct[a].enabled IN SelectSeq(accounts, Keep)

getMasterAccount ==
    LET ms == getEnabledAccounts
        idx == {i \in 1..Len(ms) : acct[ms[i]].isMaster}
    IN  IF idx = {} THEN NoAccount
        ELSE ms[CHOOSE i \in idx : \A k \in idx : i <= k]

\* toggleCopyMode: flips one feature toggle
toggleCopyMode(mode) ==
    /\ settings' = [settings EXCEPT ![mode] = ~@]
    /\ UNCHANGED <<accounts, acct, clients, positions,
                   lastKnownPositions, tick, batch, timers>>
    /\ lastRun' = NoRun
    /\ UNCHANGED <<intent, order>>

(***************************************************************************)
(* MexcClientWrapper                                                       *)
(***************************************************************************)
\* getOpenPositions(symbol?): a failed request is caught and answered with []
AnySymbol == "*"

getOpenPositions(a, symbol, ok) ==
    IF ~ok THEN <<>>
    ELSE ToList({p \in positions[a] :
                    /\ p.volume > 0
                    /\ (symbol = AnySymbol \/ p.symbol = symbol)})

(***************************************************************************)
(* Exchange (environment)                                                  *)
(***************************************************************************)
\* the keys the master trades in the watcher runs
MasterKeys ==
    { <<"BTC_USDT", "long">>, <<"BTC_USDT", "short">>, <<"ETH_USDT", "short">> }

\* the master opens, closes or resizes one position on the exchange; the tick
\* reads the master's positions once, at the fetch, so trades made while a tick
\* is running are ordered after it
MasterTrade ==
    /\ tick.pc = "idle"
    /\ getMasterAccount # NoAccount
    /\ LET m == getMasterAccount IN
       \E k \in MasterKeys :
          LET held == {p \in positions[m] : Key(p) = k} IN
          \/ /\ held = {}
             /\ \E v \in Volumes :
                  positions' = [positions EXCEPT ![m] =
                      @ \cup {[symbol |-> k[1], side |-> k[2], volume |-> v]}]
          \/ /\ held # {}
             /\ positions' = [positions EXCEPT ![m] = @ \ held]
          \/ /\ held # {}
             /\ \E v \in Volumes :
                  /\ \A p \in held : p.volume # v
                  /\ positions' = [positions EXCEPT ![m] =
                      (@ \ held) \cup {[symbol |-> k[1], side |-> k[2], volume |-> v]}]
    /\ UNCHANGED <<accounts, acct, clients, settings,
                   lastKnownPositions, tick, batch, timers>>
    /\ lastRun' = NoRun
    /\ UNCHANGED <<intent, order>>

\* a slave's position on the copied key opens or closes on the exchange
SlaveKey == [symbol |-> "BTC_USDT", side |-> "long", volume |-> 1]

SlaveTrade ==
    /\ tick.pc = "idle"
    /\ \E a \in Range(getSlaveAccounts) \cap clients :
         positions' = [positions EXCEPT ![a] =
                          IF SlaveKey \in @ THEN @ \ {SlaveKey} ELSE @ \cup {SlaveKey}]
    /\ UNCHANGED <<accounts, acct, clients, settings,
                   lastKnownPositions, tick, batch, timers>>
    /\ lastRun' = NoRun
    /\ UNCHANGED <<intent, order>>

\* a request sent to the exchange for an account
Request(a, action, symbol, side) ==
    [account |-> a, action |-> action, symbol |-> symbol, side |-> side]

(***************************************************************************)
(* CopyTradingEngine.checkMasterChanges                                    *)
(***************************************************************************)
\* the predicate of previousPositions.find / currentPositions.find
SameKeySymbolOnly(p, q) == p.symbol = q.symbol

SameKey(p, q) == p.symbol = q.symbol /\ p.side = q.side

find(list, pos) == \E i \in 1..Len(list) : SameKey(list[i], pos)

\* tick holds the locals of the invocation whose continuation runs next;
\* pending holds the invocations that setInterval started before the earlier
\* one returned and that are suspended at an await
IdleTick ==
    [pc |-> "idle", master |-> NoAccount, fetchOk |-> TRUE, cur |-> <<>>,
     prev |-> <<>>, k |-> 1, emitted |-> <<>>, slaves |-> <<>>, j |-> 1,
     sent |-> <<>>, pending |-> <<>>]

\* lines 71-78: resolve the master and its client, start the position request
TickStart ==
    /\ tick.pc = "idle"
    /\ getMasterAccount # NoAccount
    /\ getMasterAccount \in clients
    /\ tick' = [IdleTick EXCEPT !.pc = "fetch", !.master = getMasterAccount]
    /\ UNCHANGED <<accounts, acct, clients, settings, positions,
                   lastKnownPositions, batch, timers>>
    /\ lastRun' = NoRun
    /\ UNCHANGED <<intent, order>>

\* a snapshot shared by all masters instead of one per account id
previousPositionsOfAny(master) ==
    LET seen == {a \in AccountIds : lastKnownPositions[a] # <<>>}
    IN  IF seen = {} THEN <<>> ELSE lastKnownPositions[CHOOSE a \in seen : TRUE]

\* line 79: this.lastKnownPositions.get(masterAccount.id) || []
previousPositions(master) == lastKnownPositions[master]

\* lines 78-79: the request returns (ok) or fails; previousPositions is read
TickFetch ==
    /\ tick.pc = "fetch"
    /\ \E ok \in BOOLEAN :
         tick' = [tick EXCEPT !.pc = "opens", !.fetchOk = ok,
                              !.cur = getOpenPositions(tick.master, AnySymbol, ok),
                              !.prev = previousPositions(tick.master),
                              !.k = 1]
    /\ UNCHANGED <<accounts, acct, clients, settings, positions,
                   lastKnownPositions, batch, timers>>
    /\ lastRun' = NoRun
    /\ UNCHANGED <<intent, order>>

\* lines 82-92 with copyOpenPosition lines 117-129: one iteration of the loop
\* over currentPositions, up to the first sleep of copyOpenPosition
TickOpens ==
    /\ tick.pc = "opens"
    /\ IF tick.k > Len(tick.cur)
       THEN tick' = [tick EXCEPT !.pc = "closes", !.k = 1]
       ELSE IF find(tick.prev, tick.cur[tick.k])
       THEN tick' = [tick EXCEPT !.k = @ + 1]
       ELSE LET ev == [type |-> "opened", pos |-> tick.cur[tick.k]] IN
            IF ~settings.copyOpenPositions \/ getSlaveAccounts = <<>>
            THEN tick' = [tick EXCEPT !.k = @ + 1, !.emitted = Append(@, ev)]
            ELSE tick' = [tick EXCEPT !.pc = "copyOpen", !.emitted = Append(@, ev),
                                      !.slaves = getSlaveAccounts, !.j = 1]
    /\ UNCHANGED <<accounts, acct, clients, settings, positions,
                   lastKnownPositions, batch, timers>>
    /\ lastRun' = NoRun
    /\ UNCHANGED <<intent, order>>

\* copyOpenPosition lines 126-178: after the sleep, one slave is handled
TickCopyOpenStep ==
    /\ tick.pc = "copyOpen"
    /\ LET a == tick.slaves[tick.j]
           pos == tick.cur[tick.k]
           last == tick.j = Len(tick.slaves)
           after == IF last THEN [tick EXCEPT !.pc = "opens", !.k = @ + 1]
                    ELSE [tick EXCEPT !.j = @ + 1]
       IN  IF a \notin clients
           THEN tick' = after
           ELSE tick' = [after EXCEPT !.sent =
                            Append(@, Request(a, "open", pos.symbol, pos.side))]
    /\ UNCHANGED <<accounts, acct, clients, settings, positions,
                   lastKnownPositions, batch, timers>>
    /\ lastRun' = NoRun
    /\ UNCHANGED <<intent, order>>

\* the snapshot stored at line 107
SnapshotOnlyOnChange(old, cur, emitted) == IF emitted = <<>> THEN old ELSE cur

StoredSnapshot(old, cur, emitted) == cur

\* lines 95-107 with copyClosePosition lines 184-194: one iteration of the loop
\* over previousPositions, or the end of the tick
TickCloses ==
    /\ tick.pc = "closes"
    /\ IF tick.k > Len(tick.prev)
       THEN /\ tick' = [tick EXCEPT !.pc = "done"]
            /\ lastKnownPositions' = [lastKnownPositions EXCEPT ![tick.master] =
                   StoredSnapshot(@, tick.cur, tick.emitted)]
       ELSE /\ UNCHANGED lastKnownPositions
            /\ IF find(tick.cur, tick.prev[tick.k])
               THEN tick' = [tick EXCEPT !.k = @ + 1]
               ELSE LET ev == [type |-> "closed", pos |-> tick.prev[tick.k]] IN
                    IF ~settings.copyClosePositions \/ getSlaveAccounts = <<>>
                    THEN tick' = [tick EXCEPT !.k = @ + 1, !.emitted = Append(@, ev)]
                    ELSE tick' = [tick EXCEPT !.pc = "copyClose",
                                              !.emitted = Append(@, ev),
                                              !.slaves = getSlaveAccounts, !.j = 1]
    /\ UNCHANGED <<accounts, acct, clients, settings, positions,
                   batch, timers>>
    /\ lastRun' = NoRun
    /\ UNCHANGED <<intent, order>>

\* copyClosePosition lines 192-236: after the sleep, one slave is handled
TickCopyCloseStep ==
    /\ tick.pc = "copyClose"
    /\ LET a == tick.slaves[tick.j]
           pos == tick.prev[tick.k]
           last == tick.j = Len(tick.slaves)
           after == IF last THEN [tick EXCEPT !.pc = "closes", !.k = @ + 1]
                    ELSE [tick EXCEPT !.j = @ + 1]
       IN  IF a \notin clients
           THEN tick' = after
           ELSE \E fetched \in BOOLEAN, priced \in BOOLEAN :
                  LET held == getOpenPositions(a, pos.symbol, fetched)
                      mine == {i \in 1..Len(held) : held[i].side = pos.side}
                  IN  tick' = IF mine # {} /\ priced
                              THEN [after EXCEPT !.sent =
                                      Append(@, Request(a, "close", pos.symbol, pos.side))]
                              ELSE after
    /\ UNCHANGED <<accounts, acct, clients, settings, positions,
                   lastKnownPositions, batch, timers>>
    /\ lastRun' = NoRun
    /\ UNCHANGED <<intent, order>>

\* checkMasterChanges returns: its locals are gone, and a suspended invocation,
\* if there is one, is the one to continue
TickReturn ==
    /\ tick.pc = "done"
    /\ tick' = IF tick.pending = <<>> THEN IdleTick
               ELSE [Head(tick.pending) EXCEPT !.pending = Tail(tick.pending)]
    /\ UNCHANGED <<accounts, acct, clients, settings, positions,
                   lastKnownPositions, batch, timers>>
    /\ lastRun' = NoRun
    /\ UNCHANGED <<intent, order>>

(***************************************************************************)
(* helpers.ts: randomDelay                                                 *)
(***************************************************************************)
\* Math.floor(Math.random() * (maxMs - minMs + 1)) + minMs, Math.random() = r/RandSteps
randomDelay(minMs, maxMs, r) == ((r * (maxMs - minMs + 1)) \div RandSteps) + minMs

(***************************************************************************)
(* The batches: manualOpenPosition, manualClosePosition, setTpSlOnAll,     *)
(* handleTradeSignal, handleAlignSignal                                    *)
(***************************************************************************)
\* what preceded the processing of an account
Slept == "slept"        \* await sleep(randomDelay(...))
NoSleep == "none"       \* no sleep before the account
NoClient == "noclient"  \* no client: the account is not processed at all

\* the messages of a TradeResult
MsgOk == "OK"
MsgNoClient == "client not initialised"
MsgNotFound == "position not found"
MsgInPosition == "already in position"
MsgExchange == "exchange message"

BatchSymbol == "BTC_USDT"

\* no timer was armed in the step just taken
NoDelay == -1

IdleBatch ==
    [op |-> "none", pc |-> "idle", list |-> <<>>, settings |-> DefaultSettings,
     i |-> 1, side |-> "long", hasPrice |-> TRUE,
     results |-> <<>>, trace |-> <<>>, visited |-> <<>>, delays |-> <<>>,
     delay |-> 0, callFailed |-> FALSE, submitting |-> {}, attempt |-> 0, retried |-> "none",
     held |-> <<>>,
     armed |-> <<>>, armDelay |-> NoDelay, sent |-> <<>>]

\* lines 250-264 / 357-361 / 445-449: settings and the enabled accounts are read
BatchStart(op, side, hasPrice) ==
    /\ batch.pc = "idle"
    /\ batch' = [IdleBatch EXCEPT !.op = op, !.pc = "loop", !.side = side,
                                  !.hasPrice = hasPrice,
                                  !.list = getEnabledAccounts,
                                  !.settings = settings]
    /\ UNCHANGED <<accounts, acct, clients, settings, positions,
                   lastKnownPositions, tick, timers>>
    /\ lastRun' = NoRun
    /\ UNCHANGED <<intent, order>>

\* the side of a manual open only labels the request
manualOpenPosition == BatchStart("open", "long", TRUE)

manualClosePosition == \E hasPrice \in BOOLEAN : BatchStart("close", "long", hasPrice)

setTpSlOnAll == \E side \in Sides : BatchStart("tpsl", side, TRUE)

\* the result pushed for the account in hand, with what happened on the way
Push(b, success, message, submitFailed) ==
    [b EXCEPT !.results = Append(@, [accountId |-> b.list[b.i], success |-> success,
                                     message |-> message]),
              !.trace = Append(@, [anyFailure |-> b.callFailed \/ submitFailed,
                                   submitFailure |-> submitFailed])]

\* client.ts openPosition line 279: `side === 'long' ? 1 : 3`
OpenSideCode(side) == IF side = "long" THEN 1 ELSE 3

\* a close that sends the codes the other way round
CloseSideCodeSwapped(side) == IF side = "long" THEN 2 ELSE 4

\* client.ts closePosition line 310: `side === 'long' ? 4 : 2`
CloseSideCode(side) == IF side = "long" THEN 4 ELSE 2

\* helpers.ts lines 175-181
sideToMexcCode(side, action) ==
    IF side = "long" THEN (IF action = "open" THEN 1 ELSE 4)
    ELSE (IF action = "open" THEN 3 ELSE 2)

\* helpers.ts lines 186-194: the switch over the code, with its default
mexcCodeToSide(code) ==
    CASE code = 1 -> [side |-> "long", action |-> "open"]
      [] code = 2 -> [side |-> "short", action |-> "close"]
      [] code = 3 -> [side |-> "short", action |-> "open"]
      [] code = 4 -> [side |-> "long", action |-> "close"]
      [] OTHER -> [side |-> "long", action |-> "open"]

\* the order handed to submitOrder by the batch: manualClosePosition lines
\* 403-408 pass the side and the volume of the position in hand (the head of
\* b.held) to closePosition, which adds the side code
Submitted(b, action) ==
    IF action = "close"
    THEN [account |-> b.list[b.i], action |-> action, symbol |-> BatchSymbol,
          side |-> b.held[1].side, vol |-> b.held[1].volume,
          sideCode |-> CloseSideCode(b.held[1].side)]
    ELSE [account |-> b.list[b.i], action |-> action, symbol |-> BatchSymbol,
          side |-> b.side, sideCode |-> OpenSideCode(b.side)]

\* a loop that steps over the account after the one in hand
NextAccountSkip(b) ==
    [b EXCEPT !.i = @ + 2, !.pc = "loop", !.attempt = 0, !.retried = "none", !.callFailed = FALSE,
              !.held = <<>>]

\* continue: the loop moves to the next account
NextAccount(b) ==
    [b EXCEPT !.i = @ + 1, !.pc = "loop", !.attempt = 0, !.retried = "none", !.callFailed = FALSE,
              !.held = <<>>]

\* await client.openPosition / closePosition: submitOrder is entered and the
\* loop waits for it
CallSubmitNoAwait(b, action) ==
    [b EXCEPT !.submitting = @ \cup {b.i}, !.i = @ + 1, !.pc = "loop",
              !.sent = Append(@, Submitted(b, action))]

CallSubmit(b, action) ==
    [b EXCEPT !.pc = "submit", !.attempt = 0, !.retried = "none", !.submitting = @ \cup {b.i},
              !.sent = Append(@, Submitted(b, action))]

\* the closePosition call for the first position still to close
CallClose(b) ==
    IF b.hasPrice THEN CallSubmit([b EXCEPT !.side = b.held[1].side], "close")
    ELSE [b EXCEPT !.pc = "price", !.side = b.held[1].side]

\* the first exchange call of the account's iteration
FirstCall(b) ==
    CASE b.op = "open" -> CallSubmit(b, "open")
      [] b.op \in {"close", "signal"} -> [b EXCEPT !.pc = "query"]
      [] b.op = "tpsl" -> [b EXCEPT !.pc = "tpsl"]
      [] OTHER -> [b EXCEPT !.pc = "cancel"]

\* the condition of the inter-account sleep
NeedsDelay(b) ==
    IF b.op = "open" THEN ~acct[b.list[b.i]].isMaster /\ b.i > 1
    ELSE IF b.op \in {"close", "tpsl", "signal"} THEN b.i > 1
    ELSE FALSE

\* the head of the loop body: client lookup and the inter-account sleep
BatchLoop ==
    /\ batch.pc = "loop"
    /\ IF batch.i > Len(batch.list)
       THEN batch' = [batch EXCEPT !.pc = "done", !.armDelay = NoDelay]
       ELSE LET a == batch.list[batch.i]
                b == [batch EXCEPT !.visited = Append(@, a), !.armDelay = NoDelay]
            IN  IF a \notin clients
                THEN LET c == [b EXCEPT !.delays = Append(@, NoClient)] IN
                     IF batch.op \in {"open", "signal"}
                     THEN batch' = NextAccount(Push(c, FALSE, MsgNoClient, FALSE))
                     ELSE batch' = NextAccount(c)
                ELSE IF NeedsDelay(batch)
                THEN \E r \in RandGrid :
                       batch' = [b EXCEPT !.pc = "sleep", !.delays = Append(@, Slept),
                                   !.delay = randomDelay(batch.settings.delayMinMs,
                                                         batch.settings.delayMaxMs, r)]
                ELSE batch' = FirstCall([b EXCEPT !.delays = Append(@, NoSleep)])
    /\ UNCHANGED <<accounts, acct, clients, settings, positions,
                   lastKnownPositions, tick, timers>>
    /\ lastRun' = NoRun
    /\ UNCHANGED <<intent, order>>

\* await sleep(delay) returns
BatchSleepDone ==
    /\ batch.pc = "sleep"
    /\ batch' = FirstCall([batch EXCEPT !.delay = 0])
    /\ UNCHANGED <<accounts, acct, clients, settings, positions,
                   lastKnownPositions, tick, timers>>
    /\ lastRun' = NoRun
    /\ UNCHANGED <<intent, order>>

\* manualClosePosition lines 377-386: the account's positions are read
BatchQueryClose ==
    /\ batch.pc = "query" /\ batch.op = "close"
    /\ \E ok \in BOOLEAN :
         LET list == getOpenPositions(batch.list[batch.i], BatchSymbol, ok)
             b == [batch EXCEPT !.callFailed = @ \/ ~ok]
         IN  batch' = IF Len(list) = 0
                      THEN NextAccount(Push(b, FALSE, MsgNotFound, FALSE))
                      ELSE CallClose([b EXCEPT !.held = list])
    /\ UNCHANGED <<accounts, acct, clients, settings, positions,
                   lastKnownPositions, tick, timers>>
    /\ lastRun' = NoRun
    /\ UNCHANGED <<intent, order>>

\* manualClosePosition lines 391-394: getCurrentPrice, null falls back to entryPrice
BatchPrice ==
    /\ batch.pc = "price"
    /\ \E ok \in BOOLEAN :
         batch' = CallSubmit([batch EXCEPT !.callFailed = @ \/ ~ok], "close")
    /\ UNCHANGED <<accounts, acct, clients, settings, positions,
                   lastKnownPositions, tick, timers>>
    /\ lastRun' = NoRun
    /\ UNCHANGED <<intent, order>>

\* what the loop does once the account's result is pushed
AfterResultAbortOnFailure(b, success) ==
    IF ~success THEN [b EXCEPT !.pc = "done"]
    ELSE IF b.op = "close" /\ Len(b.held) > 1
    THEN CallClose([b EXCEPT !.held = Tail(@), !.callFailed = FALSE])
    ELSE NextAccount(b)

AfterResult(b, success) ==
    IF b.op = "close" /\ Len(b.held) > 1
    THEN CallClose([b EXCEPT !.held = Tail(@), !.callFailed = FALSE])
    ELSE NextAccount(b)

SubmitOutcomes == {"ok", "rejected", "error", "ratelimit"}

\* client.ts submitOrder lines 250-262: `if (isRateLimit && attempt === 0)` the
\* call sleeps and tries again
RetriesAnyError(outcome, attempt) == outcome \in {"error", "ratelimit"} /\ attempt = 0

Retries(outcome, attempt) == outcome = "ratelimit" /\ attempt = 0

\* client.ts submitOrder lines 240-265: what the call that just ended did and returned
Returned(b, outcome) ==
    [kind |-> "submitOrder", attempts |-> b.attempt + 1,
     first |-> IF b.attempt = 0 THEN outcome ELSE b.retried, last |-> outcome,
     success |-> outcome = "ok",
     message |-> IF outcome = "ok" THEN MsgOk ELSE MsgExchange]

\* client.ts submitOrder lines 235-266: the request returns; a rate-limit error
\* on the first attempt is retried after a backoff
BatchSubmitReturn ==
    /\ batch.pc = "submit" /\ batch.op \in {"open", "close"}
    /\ \E outcome \in SubmitOutcomes :
         IF Retries(outcome, batch.attempt)
         THEN /\ batch' = [batch EXCEPT !.pc = "backoff", !.attempt = @ + 1,
                                        !.retried = outcome]
              /\ lastRun' = NoRun
         ELSE LET r == Returned(batch, outcome)
                  b == [batch EXCEPT !.submitting = @ \ {batch.i}]
              IN  /\ batch' = AfterResult(Push(b, r.success, r.message, ~r.success),
                                          r.success)
                  /\ lastRun' = r
    /\ UNCHANGED <<accounts, acct, clients, settings, positions,
                   lastKnownPositions, tick, timers>>
    /\ UNCHANGED <<intent, order>>

\* client.ts submitOrder lines 256-260: the backoff is over, the second attempt starts
BatchBackoffDone ==
    /\ batch.pc = "backoff"
    /\ batch' = [batch EXCEPT !.pc = "submit"]
    /\ UNCHANGED <<accounts, acct, clients, settings, positions,
                   lastKnownPositions, tick, timers>>
    /\ lastRun' = NoRun
    /\ UNCHANGED <<intent, order>>

\* setTpSlOnAll lines 484-496 with client.ts setTpSl lines 331-361
BatchTpSl ==
    /\ batch.pc = "tpsl"
    /\ \E ok \in BOOLEAN, outcome \in {"ok", "rejected", "error"}, withMessage \in BOOLEAN :
         LET a == batch.list[batch.i]
             list == getOpenPositions(a, BatchSymbol, ok)
             found == \E n \in 1..Len(list) : list[n].side = batch.side
             b == [batch EXCEPT !.callFailed = @ \/ ~ok,
                      !.sent = IF found
                               THEN Append(@, Request(a, "tpsl", BatchSymbol, batch.side))
                               ELSE @]
         IN  batch' =
               IF ~found THEN NextAccount(Push(b, FALSE, MsgNotFound, FALSE))
               ELSE IF outcome = "ok" THEN NextAccount(Push(b, TRUE, MsgOk, FALSE))
               ELSE IF outcome = "rejected" /\ ~withMessage
               THEN NextAccount(Push(b, FALSE, MsgOk, TRUE))
               ELSE NextAccount(Push(b, FALSE, MsgExchange, TRUE))
    /\ UNCHANGED <<accounts, acct, clients, settings, positions,
                   lastKnownPositions, tick, timers>>
    /\ lastRun' = NoRun
    /\ UNCHANGED <<intent, order>>

(***************************************************************************)
(* signals.ts: handleTradeSignal, handleAlignSignal and their timers       *)
(***************************************************************************)
MaxTimers == 3

NoPosition == [symbol |-> "none", side |-> "none", volume |-> 0]

AlignDelayMin == 5000
AlignDelayMax == 15000

\* a timer armed with setTimeout: the closure keeps the account and its client
Timer(kind, a, armedPos) ==
    [kind |-> kind, account |-> a, armedPos |-> armedPos, fires |-> 0]

\* handleTradeSignal lines 113-157 / handleAlignSignal lines 327-344: signals are
\* enabled, the text parses and there are enabled accounts
signalsEnabledIgnored(s) == TRUE

\* signals.ts 116 and 329, bot.ts 640: if (!settings.signalsEnabled) return false
signalsEnabled(s) == s.signalsEnabled

SignalStart(op, side) ==
    /\ signalsEnabled(settings)
    /\ getEnabledAccounts # <<>>
    /\ Len(timers) + Len(getEnabledAccounts) <= MaxTimers
    /\ BatchStart(op, side, TRUE)

handleTradeSignal == \E side \in Sides : SignalStart("signal", side)

handleAlignSignal == SignalStart("align", "long")

\* handleTradeSignal lines 181-190: hasOpenPosition
BatchQuerySignal ==
    /\ batch.pc = "query" /\ batch.op = "signal"
    /\ \E ok \in BOOLEAN :
         LET hasPosition == Len(getOpenPositions(batch.list[batch.i], BatchSymbol, ok)) > 0
             b == [batch EXCEPT !.callFailed = @ \/ ~ok]
         IN  batch' = IF hasPosition
                      THEN NextAccount(Push(b, FALSE, MsgInPosition, FALSE))
                      ELSE [b EXCEPT !.pc = "cancel"]
    /\ UNCHANGED <<accounts, acct, clients, settings, positions,
                   lastKnownPositions, tick, timers>>
    /\ lastRun' = NoRun
    /\ UNCHANGED <<intent, order>>

\* handleTradeSignal line 193 / handleAlignSignal line 352: cancelAllOrders, whose
\* boolean answer is not looked at
BatchCancel ==
    /\ batch.pc = "cancel"
    /\ \E ok \in BOOLEAN :
         LET a == batch.list[batch.i]
             b == [batch EXCEPT !.callFailed = @ \/ ~ok,
                      !.sent = Append(@, Request(a, "cancelAll", BatchSymbol, batch.side))]
         IN  batch' = IF batch.op = "signal" THEN CallSubmit(b, "open")
                      ELSE [b EXCEPT !.pc = "query"]
    /\ UNCHANGED <<accounts, acct, clients, settings, positions,
                   lastKnownPositions, tick, timers>>
    /\ lastRun' = NoRun
    /\ UNCHANGED <<intent, order>>

\* handleTradeSignal lines 250-267: the condition under which the cancel timer is armed
ArmsTimerAlways(success) == TRUE

ArmsTimer(success) == success

\* handleTradeSignal lines 228-267: openPosition returns, the result is pushed and
\* the cancel timer is armed
BatchSubmitReturnSignal ==
    /\ batch.pc = "submit" /\ batch.op = "signal"
    /\ \E outcome \in SubmitOutcomes :
         IF Retries(outcome, batch.attempt)
         THEN /\ batch' = [batch EXCEPT !.pc = "backoff", !.attempt = @ + 1,
                                        !.retried = outcome]
              /\ lastRun' = NoRun
              /\ UNCHANGED timers
         ELSE LET success == outcome = "ok"
                  a == batch.list[batch.i]
                  b == Push([batch EXCEPT !.submitting = @ \ {batch.i}], success,
                            IF success THEN MsgOk ELSE MsgExchange, ~success)
              IN  /\ lastRun' = Returned(batch, outcome)
                  /\ IF ArmsTimer(success)
                     THEN \E r \in RandGrid :
                            LET cancelDelay ==
                                    randomDelay(batch.settings.signalCancelTimeMin * 1000,
                                                batch.settings.signalCancelTimeMax * 1000, r)
                            IN  /\ timers' = Append(timers,
                                        Timer("cancel", a, NoPosition))
                                /\ batch' = [AfterResult(
                                                 [b EXCEPT !.armed = Append(@, a)], success)
                                               EXCEPT !.armDelay = cancelDelay]
                     ELSE /\ batch' = AfterResult(b, success)
                          /\ UNCHANGED timers
    /\ UNCHANGED <<accounts, acct, clients, settings, positions,
                   lastKnownPositions, tick>>
    /\ UNCHANGED <<intent, order>>

\* handleAlignSignal lines 355-401: the position is read and the close is deferred
BatchQueryAlign ==
    /\ batch.pc = "query" /\ batch.op = "align"
    /\ \E ok \in BOOLEAN :
         LET a == batch.list[batch.i]
             list == getOpenPositions(a, BatchSymbol, ok)
             b == [batch EXCEPT !.callFailed = @ \/ ~ok]
         IN  IF Len(list) = 0
             THEN /\ batch' = NextAccount(b)
                  /\ UNCHANGED timers
             ELSE \E r \in RandGrid :
                    LET delay == randomDelay(AlignDelayMin, AlignDelayMax, r) IN
                    /\ timers' = Append(timers, Timer("align", a, list[1]))
                    /\ batch' = [NextAccount([b EXCEPT !.armed = Append(@, a)])
                                   EXCEPT !.armDelay = delay]
    /\ UNCHANGED <<accounts, acct, clients, settings, positions,
                   lastKnownPositions, tick>>
    /\ lastRun' = NoRun
    /\ UNCHANGED <<intent, order>>

\* handleTradeSignal lines 258-262: the condition under which the cancel timer
\* cancels the account's orders
CancelsWhenHeld(hasPos) == hasPos

CancelsOrders(hasPos) == ~hasPos

\* handleAlignSignal lines 370-390: the position the deferred close acts on
StaleClosePosition(armedPos, currentPositions) == armedPos

ClosePosition(armedPos, currentPositions) ==
    IF Len(currentPositions) = 0 THEN NoPosition ELSE currentPositions[1]

\* after a callback has run: setTimeout fires once, the timer is gone
AfterRun(ts, n) == SubSeq(ts, 1, n - 1) \o SubSeq(ts, n + 1, Len(ts))

\* a timer of the same kind was armed for the same account after the n-th one
\* and has not run yet (timers are appended in the order of arming)
ArmedAfter(ts, n) ==
    \E k \in (n + 1)..Len(ts) : ts[k].account = ts[n].account /\ ts[k].kind = ts[n].kind

\* the delay of a timer elapses and its callback runs: it reads the account's
\* positions on the symbol and acts on what it read
TimerRun ==
    /\ \E n \in 1..Len(timers), ok \in BOOLEAN :
         LET t == timers[n]
             list == getOpenPositions(t.account, BatchSymbol, ok)
             closing == ClosePosition(t.armedPos, list)
             run == [kind |-> t.kind, account |-> t.account, armedPos |-> t.armedPos,
                     fires |-> t.fires + 1, saw |-> list, did |-> "none",
                     target |-> NoPosition, laterArmed |-> ArmedAfter(timers, n)]
         IN  /\ lastRun' =
                   IF t.kind = "cancel"
                   THEN IF CancelsOrders(Len(list) > 0)
                        THEN [run EXCEPT !.did = "cancelAll"]
                        ELSE run
                   ELSE IF closing = NoPosition
                        THEN run
                        ELSE [run EXCEPT !.did = "close", !.target = closing]
             /\ timers' = AfterRun(timers, n)
    /\ UNCHANGED <<accounts, acct, clients, settings, positions,
                   lastKnownPositions, tick, batch, intent, order>>

\* between the arming of a timer and its callback the account trades on the
\* batch symbol: a position opens, closes or is resized
ExchangeTrade ==
    /\ \E n \in 1..Len(timers), side \in Sides :
         LET a == timers[n].account
             held == {p \in positions[a] : p.symbol = BatchSymbol}
         IN  \/ /\ held = {}
                /\ positions' = [positions EXCEPT ![a] =
                         @ \cup {[symbol |-> BatchSymbol, side |-> side, volume |-> 1]}]
             \/ /\ \E p \in held : p.side = side
                /\ positions' = [positions EXCEPT ![a] = @ \ held]
             \/ /\ \E p \in held : p.side = side /\ side = "long"
                /\ positions' = [positions EXCEPT ![a] =
                         {[symbol |-> BatchSymbol, side |-> side,
                           volume |-> IF \E p \in held : p.volume = 1 THEN 2 ELSE 1]}]
    /\ UNCHANGED <<accounts, acct, clients, settings,
                   lastKnownPositions, tick, batch, timers>>
    /\ lastRun' = NoRun
    /\ UNCHANGED <<intent, order>>

\* the batch returns its results to the caller
BatchReturn ==
    /\ batch.pc = "done"
    /\ batch' = IdleBatch
    /\ UNCHANGED <<accounts, acct, clients, settings, positions,
                   lastKnownPositions, tick, timers>>
    /\ lastRun' = NoRun
    /\ UNCHANGED <<intent, order>>

(***************************************************************************)
(* The parameters of one account's order: price deviation, leverage and    *)
(* volume.  Prices are kept in units of 1/PriceScale USD, so that every    *)
(* deviated price is an exact integer; Math.random() is r/RandSteps.       *)
(***************************************************************************)
PriceScale == 100 * RandSteps

Min(a, b) == IF a <= b THEN a ELSE b

Max(a, b) == IF a >= b THEN a ELSE b

Opposite(side) == IF side = "long" THEN "short" ELSE "long"

\* helpers.ts applyPriceDeviation: deviation = Math.random() * maxDeviationPercent
applyPriceDeviationAlwaysUp(basePrice, maxDeviationPercent, direction, r) ==
    (basePrice * (PriceScale + r * maxDeviationPercent)) \div PriceScale

applyPriceDeviation(basePrice, maxDeviationPercent, direction, r) ==
    IF direction = "long"
    THEN (basePrice * (PriceScale + r * maxDeviationPercent)) \div PriceScale
    ELSE (basePrice * (PriceScale - r * maxDeviationPercent)) \div PriceScale

\* helpers.ts randomLeverage: Math.floor(Math.random() * (max - min + 1)) + min
randomLeverage(min, max, r) == ((r * (max - min + 1)) \div RandSteps) + min

\* helpers.ts roundToStep: Math.round(value / step) * step
roundToStep(value, step) ==
    IF step <= 0 THEN value ELSE ((2 * value + step) \div (2 * step)) * step

\* Math.floor(positionUsd / (price * contractSize)), positionUsd and price scaled
Contracts(notional, price, contractSize) == notional \div (price * contractSize)

\* the fields every derived order has
BaseOrder(flow, i) ==
    [flow |-> flow, isMaster |-> i.isMaster, side |-> i.side,
     submitted |-> TRUE, reported |-> "none",
     reference |-> i.price * PriceScale, entryPrice |-> i.price * PriceScale,
     price |-> i.price * PriceScale, leverage |-> i.refLeverage,
     cap |-> 0, formulaVolume |-> 0, volume |-> 0,
     takeProfit |-> 0, stopLoss |-> 0]

\* copyOpenPosition lines 136-166, for a slave account
copyOpenOrder(i, rp, rl) ==
    LET price == applyPriceDeviation(i.price * PriceScale, i.priceDeviationPercent,
                                     i.side, rp)
        leverage == randomLeverage(Max(1, i.leverageMin),
                                   Min(i.leverageMax, i.refLeverage), rl)
        positionUsd == Min(i.maxPositionUsd, i.positionSizeUsd) * PriceScale
        volume == Contracts(positionUsd, price, i.contractSize)
        o == [BaseOrder("copyOpen", i) EXCEPT
                !.entryPrice = price, !.price = roundToStep(price, i.priceStep),
                !.leverage = leverage, !.cap = positionUsd,
                !.formulaVolume = volume, !.volume = volume]
    IN  IF volume < 1
        THEN [o EXCEPT !.submitted = FALSE, !.reported = "volume too small"]
        ELSE o

\* manualOpenPosition lines 286-316
manualOpenOrder(i, rp, rl) ==
    LET entryPrice == IF i.isMaster THEN i.price * PriceScale
                      ELSE applyPriceDeviation(i.price * PriceScale,
                                               i.priceDeviationPercent, i.side, rp)
        minLev == Max(1, i.refLeverage - i.leverageSpread)
        maxLev == Min(i.refLeverage, i.leverageMax)
        leverage == IF i.isMaster THEN i.refLeverage
                    ELSE randomLeverage(minLev, maxLev, rl)
        maxPosUsd == Min(i.positionSizeUsd, i.maxPositionUsd) * PriceScale
        formula == Contracts(maxPosUsd, entryPrice, i.contractSize)
    IN  [BaseOrder("manualOpen", i) EXCEPT
           !.entryPrice = entryPrice, !.price = roundToStep(entryPrice, i.priceStep),
           !.leverage = leverage, !.cap = maxPosUsd,
           !.formulaVolume = formula, !.volume = Max(1, formula)]

\* handleTradeSignal lines 216-223: the per-symbol contract ceiling caps the notional
CeilingNotionalIgnored(positionUsd, maxContracts, contractSize, entryPrice) ==
    positionUsd

CeilingNotional(positionUsd, maxContracts, contractSize, entryPrice) ==
    IF maxContracts > 0
    THEN Min(positionUsd, maxContracts * contractSize * entryPrice)
    ELSE positionUsd

\* handleTradeSignal lines 195-235
signalOpenOrder(i, rp, rt, rl) ==
    LET reference == (i.price * PriceScale * (100 + i.signalEntryOffset)) \div 100
        tpReference == (i.takeProfit * PriceScale * (100 + i.signalTpOffset)) \div 100
        entryPrice == IF i.isMaster THEN reference
                      ELSE applyPriceDeviation(reference, i.priceDeviationPercent,
                                               i.side, rp)
        takeProfit == IF i.isMaster THEN tpReference
                      ELSE applyPriceDeviation(tpReference, i.priceDeviationPercent,
                                               Opposite(i.side), rt)
        leverage == randomLeverage(i.leverageMin, i.leverageMax, rl)
        positionUsd == CeilingNotional(i.maxPositionUsd * PriceScale, i.maxContracts,
                                       i.contractSize, entryPrice)
        formula == Contracts(positionUsd, entryPrice, i.contractSize)
    IN  [BaseOrder("signalOpen", i) EXCEPT
           !.reference = reference,
           !.entryPrice = entryPrice, !.price = roundToStep(entryPrice, i.priceStep),
           !.leverage = leverage, !.cap = positionUsd,
           !.formulaVolume = formula, !.volume = Max(1, formula),
           !.takeProfit = roundToStep(takeProfit, i.priceStep)]

\* manualClosePosition lines 388-409: the position is closed at the reference
\* price, deviated for a non-master account
manualCloseOrderEntrySide(i, rp) ==
    LET closePrice == IF i.isMaster THEN i.price * PriceScale
                      ELSE applyPriceDeviation(i.price * PriceScale,
                                               i.priceDeviationPercent,
                                               i.side, rp)
    IN  [BaseOrder("manualClose", i) EXCEPT
           !.entryPrice = closePrice, !.price = closePrice,
           !.leverage = 1, !.volume = i.positionVolume]

manualCloseOrder(i, rp) ==
    LET closePrice == IF i.isMaster THEN i.price * PriceScale
                      ELSE applyPriceDeviation(i.price * PriceScale,
                                               i.priceDeviationPercent,
                                               Opposite(i.side), rp)
    IN  [BaseOrder("manualClose", i) EXCEPT
           !.entryPrice = closePrice, !.price = closePrice,
           !.leverage = 1, !.volume = i.positionVolume]

\* copyClosePosition lines 209-225, for a slave account: without a current price
\* the account is passed over
copyCloseOrder(i, hasPrice, rp) ==
    LET closePrice == applyPriceDeviation(i.price * PriceScale, i.priceDeviationPercent,
                                          Opposite(i.side), rp)
    IN  IF ~hasPrice
        THEN [BaseOrder("copyClose", i) EXCEPT !.submitted = FALSE]
        ELSE [BaseOrder("copyClose", i) EXCEPT
                !.entryPrice = closePrice, !.price = closePrice,
                !.leverage = 1, !.volume = i.positionVolume]

\* setTpSlOnAll lines 463-489: an absent level (0) is left alone
tpSlOrderSameSide(i, hasTp, hasSl, rt, rs) ==
    LET tp == IF hasTp THEN i.takeProfit * PriceScale ELSE 0
        sl == IF hasSl THEN i.stopLoss * PriceScale ELSE 0
    IN  [BaseOrder("tpSl", i) EXCEPT
           !.leverage = 0,
           !.takeProfit = IF i.isMaster \/ tp = 0 THEN tp
                          ELSE applyPriceDeviation(tp, i.priceDeviationPercent,
                                                   i.side, rt),
           !.stopLoss = IF i.isMaster \/ sl = 0 THEN sl
                        ELSE applyPriceDeviation(sl, i.priceDeviationPercent,
                                                 i.side, rs)]

tpSlOrder(i, hasTp, hasSl, rt, rs) ==
    LET tp == IF hasTp THEN i.takeProfit * PriceScale ELSE 0
        sl == IF hasSl THEN i.stopLoss * PriceScale ELSE 0
    IN  [BaseOrder("tpSl", i) EXCEPT
           !.leverage = 0,
           !.takeProfit = IF i.isMaster \/ tp = 0 THEN tp
                          ELSE applyPriceDeviation(tp, i.priceDeviationPercent,
                                                   Opposite(i.side), rt),
           !.stopLoss = IF i.isMaster \/ sl = 0 THEN sl
                        ELSE applyPriceDeviation(sl, i.priceDeviationPercent,
                                                 i.side, rs)]

\* one account's iteration of a flow derives its order
DeriveCopyOpen ==
    /\ intent # NoIntent /\ order = NoOrder
    /\ ~intent.isMaster
    /\ \E rp \in RandGrid, rl \in RandGrid : order' = copyOpenOrder(intent, rp, rl)
    /\ UNCHANGED <<accounts, acct, clients, settings, positions,
                   lastKnownPositions, tick, batch, timers, lastRun, intent>>

DeriveManualOpen ==
    /\ intent # NoIntent /\ order = NoOrder
    /\ \E rp \in RandGrid, rl \in RandGrid : order' = manualOpenOrder(intent, rp, rl)
    /\ UNCHANGED <<accounts, acct, clients, settings, positions,
                   lastKnownPositions, tick, batch, timers, lastRun, intent>>

DeriveSignalOpen ==
    /\ intent # NoIntent /\ order = NoOrder
    /\ \E rp \in RandGrid, rt \in RandGrid, rl \in RandGrid :
         order' = signalOpenOrder(intent, rp, rt, rl)
    /\ UNCHANGED <<accounts, acct, clients, settings, positions,
                   lastKnownPositions, tick, batch, timers, lastRun, intent>>

DeriveManualClose ==
    /\ intent # NoIntent /\ order = NoOrder
    /\ \E rp \in RandGrid : order' = manualCloseOrder(intent, rp)
    /\ UNCHANGED <<accounts, acct, clients, settings, positions,
                   lastKnownPositions, tick, batch, timers, lastRun, intent>>

DeriveCopyClose ==
    /\ intent # NoIntent /\ order = NoOrder
    /\ ~intent.isMaster
    /\ \E hasPrice \in BOOLEAN, rp \in RandGrid :
         order' = copyCloseOrder(intent, hasPrice, rp)
    /\ UNCHANGED <<accounts, acct, clients, settings, positions,
                   lastKnownPositions, tick, batch, timers, lastRun, intent>>

DeriveTpSl ==
    /\ intent # NoIntent /\ order = NoOrder
    /\ \E hasTp \in BOOLEAN, hasSl \in BOOLEAN, rt \in RandGrid, rs \in RandGrid :
         /\ hasTp \/ hasSl
         /\ order' = tpSlOrder(intent, hasTp, hasSl, rt, rs)
    /\ UNCHANGED <<accounts, acct, clients, settings, positions,
                   lastKnownPositions, tick, batch, timers, lastRun, intent>>

(***************************************************************************)
(* Specification of the watcher                                            *)
(***************************************************************************)
InitWatch ==
    /\ accounts = <<"a1", "a2", "a3">>
    /\ acct = [a \in AccountIds |->
                 [enabled |-> TRUE, isMaster |-> (a = "a1")]]
    /\ clients = {"a1", "a2"}
    /\ settings = DefaultSettings
    /\ positions \in
         { [a \in AccountIds |-> IF a = "a2" THEN s ELSE {}] :
             s \in { {}, {[symbol |-> "BTC_USDT", side |-> "long", volume |-> 1]} } }
    /\ lastKnownPositions = [a \in AccountIds |-> <<>>]
    /\ tick = IdleTick
    /\ batch = IdleBatch
    /\ timers = <<>>
    /\ lastRun = NoRun
    /\ intent = NoIntent
    /\ order = NoOrder

NextWatch ==
    \/ MasterTrade
    \/ SlaveTrade
    \/ TickStart
    \/ TickFetch
    \/ TickOpens
    \/ TickCopyOpenStep
    \/ TickCloses
    \/ TickCopyCloseStep
    \/ TickReturn
    \/ toggleCopyMode("copyOpenPositions")
    \/ toggleCopyMode("copyClosePositions")

SpecWatch == InitWatch /\ [][NextWatch]_vars

(***************************************************************************)
(* Properties of the watcher                                               *)
(***************************************************************************)
Keys(list) == {Key(list[i]) : i \in 1..Len(list)}

Emitted(type) ==
    {tick.emitted[i].pos : i \in {n \in 1..Len(tick.emitted) : tick.emitted[n].type = type}}

\* C1: on a tick whose fetch succeeded, open replication is triggered for
\* exactly the fetched positions whose (symbol, side) is not in the previous
\* snapshot, close replication for exactly the previous entries whose
\* (symbol, side) is not fetched, each once, and nothing for a key in both.
C1_DiffByKey ==
    (tick.pc = "done" /\ tick.fetchOk) =>
        /\ Emitted("opened") = {p \in Range(tick.cur) : Key(p) \notin Keys(tick.prev)}
        /\ Emitted("closed") = {p \in Range(tick.prev) : Key(p) \notin Keys(tick.cur)}
        /\ Len(tick.emitted) =
               Cardinality(Emitted("opened")) + Cardinality(Emitted("closed"))

\* a tick that opened one key, closed another and saw a third resized
C1_Witness ==
    /\ tick.pc = "done" /\ tick.fetchOk
    /\ Emitted("opened") # {} /\ Emitted("closed") # {}
    /\ \E p \in Range(tick.prev), q \in Range(tick.cur) :
          Key(p) = Key(q) /\ p.volume # q.volume

\* C2: a tick whose position fetch failed leaves the stored snapshot as it was
\* and emits no opened or closed event.
C2_FailedFetchKeepsSnapshot ==
    (tick.pc = "done" /\ ~tick.fetchOk) =>
        /\ lastKnownPositions[tick.master] = tick.prev
        /\ tick.emitted = <<>>

\* C3: after a tick whose fetch succeeded the stored snapshot of the master is
\* the full fetched list, whatever was emitted and whatever the toggles are.
C3_SnapshotIsFetchedList ==
    (tick.pc = "done" /\ tick.fetchOk) =>
        lastKnownPositions[tick.master] = tick.cur

\* a tick that emitted nothing, with replication switched off, and still
\* replaced a snapshot that differs from the fetched list
C3_Witness ==
    /\ tick.pc = "done" /\ tick.fetchOk
    /\ tick.emitted = <<>> /\ tick.cur # tick.prev
    /\ ~settings.copyOpenPositions /\ ~settings.copyClosePositions

(***************************************************************************)
(* Specification of the manual batches                                     *)
(***************************************************************************)
DelayBounds == { <<0, 1>>, <<1, 3>>, <<2, 2>> }

InitBatch ==
    /\ accounts = <<"a1", "a2", "a3">>
    /\ \E m \in {"a1", "a2"} :
         acct = [a \in AccountIds |-> [enabled |-> TRUE, isMaster |-> (a = m)]]
    /\ clients \in { {"a1", "a2", "a3"}, {"a1", "a2"} }
    /\ \E d \in DelayBounds :
         settings = [DefaultSettings EXCEPT !.delayMinMs = d[1], !.delayMaxMs = d[2]]
    /\ positions =
         [a \in AccountIds |->
            CASE a = "a1" -> {[symbol |-> BatchSymbol, side |-> "long", volume |-> 1]}
              [] a = "a2" -> {[symbol |-> BatchSymbol, side |-> "long", volume |-> 2],
                              [symbol |-> BatchSymbol, side |-> "short", volume |-> 1]}
              [] OTHER -> {}]
    /\ lastKnownPositions = [a \in AccountIds |-> <<>>]
    /\ tick = IdleTick
    /\ batch = IdleBatch
    /\ timers = <<>>
    /\ lastRun = NoRun
    /\ intent = NoIntent
    /\ order = NoOrder

NextBatch ==
    \/ manualOpenPosition
    \/ manualClosePosition
    \/ setTpSlOnAll
    \/ handleTradeSignal
    \/ BatchLoop
    \/ BatchSleepDone
    \/ BatchQueryClose
    \/ BatchPrice
    \/ BatchSubmitReturn
    \/ BatchBackoffDone
    \/ BatchTpSl
    \/ BatchQuerySignal
    \/ BatchCancel
    \/ BatchSubmitReturnSignal
    \/ BatchReturn

SpecBatch == InitBatch /\ [][NextBatch]_vars

(***************************************************************************)
(* Properties of the batch operations                                      *)
(***************************************************************************)
RECURSIVE Collapse(_)
Collapse(s) ==
    IF Len(s) <= 1 THEN s
    ELSE IF s[1] = s[2] THEN Collapse(Tail(s))
    ELSE <<s[1]>> \o Collapse(Tail(s))

ResultAccounts == [n \in 1..Len(batch.results) |-> batch.results[n].accountId]

C5_OneResultPerAccount ==
    (batch.pc = "done" /\ batch.op \in {"open", "close", "tpsl"}) =>
        Collapse(ResultAccounts) = batch.list

\* C6: at no time are the order submissions of two accounts of a batch in
\* flight together; a submission in flight belongs to the account in hand, and
\* none is in flight while the loop picks the next account, sleeps its delay or
\* makes the next account's first calls.
C6_OneSubmissionInFlight ==
    /\ Cardinality(batch.submitting) <= 1
    /\ batch.submitting # {} =>
          /\ batch.submitting = {batch.i}
          /\ batch.pc \in {"submit", "backoff"}
    /\ batch.pc \in {"loop", "sleep", "query", "cancel", "price", "tpsl", "done", "idle"} =>
          batch.submitting = {}

\* the second account's submission is in its rate-limit retry while the first
\* account's result is already there
C6_Witness ==
    /\ batch.pc = "backoff" /\ batch.i = 2 /\ batch.attempt = 1
    /\ batch.submitting = {2}
    /\ Len(batch.results) = 1

\* C7: in every batch no delay is waited before the first account of the list,
\* a delay is waited before every later account that is processed, and with
\* delayMinMs <= delayMaxMs the delay waited lies in [delayMinMs, delayMaxMs].
C7_DelayBeforeAllButFirst ==
    /\ \A n \in 1..Len(batch.delays) :
          batch.delays[n] # NoClient => (batch.delays[n] = Slept <=> n > 1)
    /\ (batch.pc = "sleep" /\ batch.settings.delayMinMs <= batch.settings.delayMaxMs) =>
          batch.delay \in batch.settings.delayMinMs..batch.settings.delayMaxMs

(***************************************************************************)
(* Specification of the signal flows and their timers                      *)
(***************************************************************************)
InitSignal ==
    /\ accounts = <<"a1", "a2", "a3">>
    /\ acct = [a \in AccountIds |-> [enabled |-> TRUE, isMaster |-> (a = "a1")]]
    /\ clients = {"a1", "a2"}
    /\ settings = [DefaultSettings EXCEPT !.delayMinMs = 1, !.delayMaxMs = 2]
    /\ positions = [a \in AccountIds |-> {}]
    /\ lastKnownPositions = [a \in AccountIds |-> <<>>]
    /\ tick = IdleTick
    /\ batch = IdleBatch
    /\ timers = <<>>
    /\ lastRun = NoRun
    /\ intent = NoIntent
    /\ order = NoOrder

NextSignal ==
    \/ handleTradeSignal
    \/ handleAlignSignal
    \/ manualOpenPosition
    \/ BatchLoop
    \/ BatchSleepDone
    \/ BatchQuerySignal
    \/ BatchCancel
    \/ BatchSubmitReturn
    \/ BatchSubmitReturnSignal
    \/ BatchBackoffDone
    \/ BatchQueryAlign
    \/ BatchReturn
    \/ TimerRun
    \/ ExchangeTrade

SpecSignal == InitSignal /\ [][NextSignal]_vars

(***************************************************************************)
(* Properties of the signal timers                                         *)
(***************************************************************************)
\* the positions the account of the callback just run holds on the symbol
Live == {p \in positions[lastRun.account] : p.symbol = BatchSymbol}

SuccessfulAccounts ==
    LET ok == SelectSeq(batch.results, LAMBDA r : r.success)
    IN  [n \in 1..Len(ok) |-> ok[n].accountId]

\* C8 as stated: the cancel timer does nothing when the account holds no
\* position on the symbol and cancels all orders of the symbol when it holds one.
C8_CancelsOnlyWhenHeld ==
    lastRun.kind = "cancel" =>
        /\ Live = {} => lastRun.did = "none"
        /\ Live # {} => lastRun.did = "cancelAll"

\* C8: the cancel timer cancels all orders of the symbol exactly when its
\* position query returned no open position, which is the case whenever the
\* account holds none and also when the query failed; when the query returned
\* a position it does nothing; it never submits a close order.
C8_CancelsWhenNoPositionSeen ==
    lastRun.kind = "cancel" =>
        /\ lastRun.did = "cancelAll" <=> lastRun.saw = <<>>
        /\ lastRun.saw # <<>> => lastRun.did = "none"
        /\ Live = {} => lastRun.did = "cancelAll"
        /\ lastRun.did # "close"

\* a cancel timer ran while its account held a position and did nothing
C8_Witness ==
    /\ lastRun.kind = "cancel"
    /\ Live # {} /\ lastRun.saw # <<>>
    /\ lastRun.did = "none"

\* C9: in a signal batch the cancel timers armed are, in order, one for each
\* account whose open succeeded and none for an account whose open failed or
\* that was already in position, each with a delay within
\* [signalCancelTimeMin, signalCancelTimeMax] seconds; a manual open arms
\* none; and a timer runs its callback once.
C9_TimerPerSuccessfulSignalOpen ==
    /\ batch.op = "signal" => batch.armed = SuccessfulAccounts
    /\ (batch.op = "signal" /\ batch.armDelay # NoDelay) =>
          batch.armDelay \in (batch.settings.signalCancelTimeMin * 1000) ..
                             (batch.settings.signalCancelTimeMax * 1000)
    /\ batch.op = "open" => batch.armed = <<>> /\ batch.armDelay = NoDelay
    /\ \A n \in 1..Len(timers) : timers[n].fires = 0
    /\ lastRun.kind \in {"cancel", "align"} => lastRun.fires = 1

\* a signal batch whose first account was already in position, whose second
\* opened and whose third has no client: one timer, for the second
C9_Witness ==
    /\ batch.op = "signal" /\ batch.pc = "done" /\ Len(batch.results) = 3
    /\ batch.results[1].message = MsgInPosition
    /\ batch.results[2].success
    /\ batch.results[3].message = MsgNoClient
    /\ batch.armed = <<"a2">>
    /\ \E n \in 1..Len(timers) : timers[n].kind = "cancel" /\ timers[n].account = "a2"

\* C10: the deferred close of an align signal submits a close only for a
\* position the account holds on the symbol when the callback runs, with that
\* position's side and volume, and submits nothing when the account holds none.
C10_CloseUsesLivePosition ==
    lastRun.kind = "align" =>
        /\ lastRun.did = "close" => lastRun.target \in Live
        /\ Live = {} => lastRun.did = "none"
        /\ lastRun.did # "cancelAll"

\* the position was resized or replaced between the signal and the callback,
\* and the close is for the position held now
C10_Witness ==
    /\ lastRun.kind = "align" /\ lastRun.did = "close"
    /\ lastRun.target # lastRun.armedPos
    /\ lastRun.target \in Live

(***************************************************************************)
(* Specification of the order parameters: the inputs of one account's      *)
(* order are drawn at the start, every flow derives its order from them    *)
(***************************************************************************)
MaxLeverage == 4

MaxSpread == 2

BaseIntent ==
    [family |-> "price", isMaster |-> FALSE, side |-> "long",
     price |-> 2, takeProfit |-> 3, stopLoss |-> 1, positionVolume |-> 2,
     contractSize |-> 1, priceStep |-> 1,
     refLeverage |-> 2, leverageSpread |-> 0, leverageMin |-> 2, leverageMax |-> 2,
     maxPositionUsd |-> 8, positionSizeUsd |-> 8,
     priceDeviationPercent |-> 2, maxContracts |-> 0,
     signalEntryOffset |-> 0, signalTpOffset |-> 0]

\* the leverage inputs vary: reference leverage, spread and the account's limits
\* (the account forms keep 1 <= leverageMin <= leverageMax)
LeverageIntents ==
    { i \in { [BaseIntent EXCEPT !.family = "leverage", !.isMaster = m,
                                 !.refLeverage = ref, !.leverageSpread = spread,
                                 !.leverageMin = lmin, !.leverageMax = lmax] :
                m \in BOOLEAN, ref \in 1..MaxLeverage, spread \in 0..MaxSpread,
                lmin \in 1..MaxLeverage, lmax \in 1..MaxLeverage } :
        i.leverageMin <= i.leverageMax }

\* the price and size inputs vary; the reference price is a multiple of the first
\* two price steps and lies between two multiples of the third
PriceIntents ==
    { [BaseIntent EXCEPT !.isMaster = m, !.side = side, !.price = price,
                         !.takeProfit = price + 1, !.stopLoss = price - 1,
                         !.contractSize = cs, !.priceStep = step,
                         !.maxPositionUsd = maxPos, !.positionSizeUsd = size,
                         !.priceDeviationPercent = d, !.maxContracts = c,
                         !.signalEntryOffset = offset] :
        m \in BOOLEAN, side \in Sides, price \in {2, 4}, cs \in {1, 2},
        step \in {1, PriceScale, (5 * PriceScale) \div 3}, maxPos \in {1, 5, 12}, size \in {4, 12},
        d \in {0, 2}, c \in {0, 1, 2}, offset \in {0, 50} }

InitParams ==
    /\ accounts = <<"a1", "a2", "a3">>
    /\ acct = [a \in AccountIds |-> [enabled |-> TRUE, isMaster |-> (a = "a1")]]
    /\ clients = {"a1", "a2", "a3"}
    /\ settings = DefaultSettings
    /\ positions = [a \in AccountIds |-> {}]
    /\ lastKnownPositions = [a \in AccountIds |-> <<>>]
    /\ tick = IdleTick
    /\ batch = IdleBatch
    /\ timers = <<>>
    /\ lastRun = NoRun
    /\ order = NoOrder
    /\ intent \in LeverageIntents \cup PriceIntents

NextParams ==
    \/ DeriveCopyOpen
    \/ DeriveManualOpen
    \/ DeriveSignalOpen
    \/ DeriveManualClose
    \/ DeriveCopyClose
    \/ DeriveTpSl

SpecParams == InitParams /\ [][NextParams]_vars

(***************************************************************************)
(* Properties of the order parameters                                      *)
(***************************************************************************)
\* the order of the flow under every draw of the random numbers
Draws(flow) ==
    CASE flow = "copyOpen" ->
           {copyOpenOrder(intent, rp, rl) : rp \in RandGrid, rl \in RandGrid}
      [] flow = "manualOpen" ->
           {manualOpenOrder(intent, rp, rl) : rp \in RandGrid, rl \in RandGrid}
      [] flow = "signalOpen" ->
           {signalOpenOrder(intent, rp, rt, rl) :
              rp \in RandGrid, rt \in RandGrid, rl \in RandGrid}
      [] flow = "manualClose" ->
           {manualCloseOrder(intent, rp) : rp \in RandGrid}
      [] flow = "copyClose" ->
           {copyCloseOrder(intent, order.submitted, rp) : rp \in RandGrid}
      [] OTHER ->
           {tpSlOrder(intent, order.takeProfit # 0, order.stopLoss # 0, rt, rs) :
              rt \in RandGrid, rs \in RandGrid}

\* C11: the order of the master account involves no random draw in any flow:
\* its price is the reference price, its leverage in a manual open is the
\* reference leverage, and every draw of the random numbers gives the same order.
C11_MasterOrderIsReference ==
    (order # NoOrder /\ order.isMaster) =>
        /\ order.entryPrice = order.reference
        /\ order.flow = "manualOpen" => order.leverage = intent.refLeverage
        /\ Draws(order.flow) = {order}

\* C12: the leverage of a manual open for a non-master account lies between
\* max(1, referenceLeverage - leverageSpread) and
\* min(referenceLeverage, account.leverageMax), and is not below the account's
\* leverageMin.
C12_ManualLeverageInRange ==
    (order # NoOrder /\ order.flow = "manualOpen" /\ ~order.isMaster) =>
        /\ Max(1, intent.refLeverage - intent.leverageSpread) <= order.leverage
        /\ order.leverage <= Min(intent.refLeverage, intent.leverageMax)
        /\ intent.leverageMin <= order.leverage

\* C13: every open order submitted for a non-master account, on the copy, the
\* manual and the signal path, carries a leverage within the account's own
\* bounds leverageMin..leverageMax.
C13_LeverageWithinAccountBounds ==
    (order # NoOrder /\ order.flow \in {"copyOpen", "manualOpen", "signalOpen"}
       /\ ~order.isMaster /\ order.submitted) =>
        /\ intent.leverageMin <= order.leverage
        /\ order.leverage <= intent.leverageMax

OpenFlows == {"copyOpen", "manualOpen", "signalOpen"}

\* C14: in every open flow, when the volume formula gives less than one
\* contract no order is submitted and the account is reported with the reason
\* volume too small; a submitted order carries the volume the formula gave.
C14_SmallVolumeIsSkipped ==
    (order # NoOrder /\ order.flow \in OpenFlows) =>
        /\ order.formulaVolume < 1 =>
              ~order.submitted /\ order.reported = "volume too small"
        /\ order.submitted => order.volume = order.formulaVolume

\* the notional an open order of the flow may not exceed, in 1/PriceScale USD
NotionalCap ==
    IF order.flow = "signalOpen" THEN intent.maxPositionUsd * PriceScale
    ELSE Min(intent.positionSizeUsd, intent.maxPositionUsd) * PriceScale

\* C15: the notional of every submitted open order, volume * derived price *
\* contractSize, does not exceed min(requested notional, account.maxPositionUsd).
C15_NotionalWithinCap ==
    (order # NoOrder /\ order.flow \in OpenFlows /\ order.submitted) =>
        order.volume * order.entryPrice * intent.contractSize <= NotionalCap

\* C16: in the signal-driven open flow, with a contract ceiling c > 0 configured
\* for the symbol, every submitted order has a volume of at most c contracts.
C16_VolumeWithinContractCeiling ==
    (order # NoOrder /\ order.flow = "signalOpen" /\ order.submitted
       /\ intent.maxContracts > 0) =>
        order.volume <= intent.maxContracts

\* the ceiling binds: the account's position limit alone would allow more
\* contracts than the order carries
C16_Witness ==
    /\ order # NoOrder /\ order.flow = "signalOpen" /\ order.submitted
    /\ intent.maxContracts > 0
    /\ order.volume = intent.maxContracts
    /\ Contracts(intent.maxPositionUsd * PriceScale, order.entryPrice,
                 intent.contractSize) > intent.maxContracts

C18_TpSlDeviationDirections ==
    (order # NoOrder /\ order.flow = "tpSl") =>
        LET tp == intent.takeProfit * PriceScale
            sl == intent.stopLoss * PriceScale
            d == intent.priceDeviationPercent
        IN  IF order.isMaster
            THEN order.takeProfit \in {0, tp} /\ order.stopLoss \in {0, sl}
            ELSE /\ order.takeProfit # 0 =>
                      IF order.side = "long"
                      THEN /\ tp * (100 - d) <= order.takeProfit * 100
                           /\ order.takeProfit <= tp
                      ELSE /\ tp <= order.takeProfit
                           /\ order.takeProfit * 100 <= tp * (100 + d)
                 /\ order.stopLoss # 0 =>
                      IF order.side = "long"
                      THEN /\ sl <= order.stopLoss
                           /\ order.stopLoss * 100 <= sl * (100 + d)
                      ELSE /\ sl * (100 - d) <= order.stopLoss * 100
                           /\ order.stopLoss <= sl

\* a slave's long position got a lowered take-profit and a raised stop-loss
C18_Witness ==
    /\ order # NoOrder /\ order.flow = "tpSl" /\ ~order.isMaster
    /\ order.side = "long"
    /\ order.takeProfit # 0 /\ order.takeProfit < intent.takeProfit * PriceScale
    /\ order.stopLoss > intent.stopLoss * PriceScale

CloseFlows == {"manualClose", "copyClose"}

\* C19: in manualClosePosition and copyClosePosition a non-master account's
\* close price is deviated against the entry rule: closing a long gives a price
\* <= the reference close price, closing a short a price >= it, within
\* priceDeviationPercent; the master's close price in manualClosePosition is
\* the reference close price.
C19_CloseDeviationDirection ==
    (order # NoOrder /\ order.flow \in CloseFlows /\ order.submitted) =>
        LET d == intent.priceDeviationPercent
        IN  IF order.isMaster
            THEN order.flow = "manualClose" /\ order.price = order.reference
            ELSE IF order.side = "long"
                 THEN /\ order.reference * (100 - d) <= order.price * 100
                      /\ order.price <= order.reference
                 ELSE /\ order.reference <= order.price
                      /\ order.price * 100 <= order.reference * (100 + d)

\* a slave's long position was closed below the reference close price
C19_Witness ==
    /\ order # NoOrder /\ order.flow = "manualClose" /\ order.submitted
    /\ ~order.isMaster /\ order.side = "long"
    /\ order.price < order.reference

(***************************************************************************)
(* Properties of submitOrder                                               *)
(***************************************************************************)
\* a request that was sent gets its answer or its error, and a backoff sleep ends
SpecBatchFair ==
    /\ SpecBatch
    /\ WF_vars(BatchSubmitReturn)
    /\ WF_vars(BatchSubmitReturnSignal)
    /\ WF_vars(BatchBackoffDone)

\* what holds of a submitOrder call while it runs and when it has returned
AtMostOneRetry ==
    /\ batch.attempt \in {0, 1}
    /\ (batch.pc = "backoff" \/ batch.attempt = 1) =>
          batch.attempt = 1 /\ batch.retried = "ratelimit"
    /\ lastRun.kind = "submitOrder" =>
          /\ lastRun.attempts \in {1, 2}
          /\ lastRun.attempts = 2 => lastRun.first = "ratelimit"
          /\ lastRun.first \in {"rejected", "error"} => lastRun.attempts = 1
          /\ lastRun.success <=> lastRun.last = "ok"
          /\ ~lastRun.success => lastRun.message = MsgExchange
          /\ batch.results # <<>>
          /\ batch.results[Len(batch.results)].success = lastRun.success
          /\ batch.results[Len(batch.results)].message = lastRun.message

\* C20: submitOrder makes at most two attempts per call, the second only after
\* a first attempt that failed with a rate-limit error; any other failure, and
\* any failure of the second attempt, is returned as a failed result with a
\* message and no further attempt; and every call returns.
C20_SubmitOrderRetriesOnce ==
    /\ []AtMostOneRetry
    /\ (batch.pc \in {"submit", "backoff"}) ~> (lastRun.kind = "submitOrder")

\* a call whose two attempts both ran into the rate limit returned a failure
C20_Witness ==
    /\ lastRun.kind = "submitOrder"
    /\ lastRun.attempts = 2 /\ lastRun.first = "ratelimit"
    /\ lastRun.last = "ratelimit" /\ ~lastRun.success

(***************************************************************************)
(* helpers.ts ConfigStorage: the account roster, and its Telegram handlers *)
(***************************************************************************)
\* the record of an id that was never in the roster
Absent == [enabled |-> FALSE, isMaster |-> FALSE]

\* the ids uuidv4() can still return
FreshIds == AccountIds \ Range(accounts)

\* the ids a roster operation is called with: those of the roster and one that
\* is not in it
KnownOrNot == Range(accounts) \cup {NoAccount}

\* what the roster operation that just returned was given, found and returned
RosterRun(kind, id, flag, returned) ==
    [kind |-> kind, id |-> id, flag |-> flag, returned |-> returned,
     before |-> accounts, beforeAcct |-> acct]

Remove(list, id) == LET Keep(a) == a # id IN SelectSeq(list, Keep)

\* addAccount lines 649-663: the first account is made master
addAccount ==
    /\ \E id \in FreshIds, enabled \in BOOLEAN, isMaster \in BOOLEAN :
         /\ accounts' = Append(accounts, id)
         /\ acct' = [acct EXCEPT ![id] = [enabled |-> enabled,
                                          isMaster |-> isMaster \/ accounts = <<>>]]
         /\ lastRun' = RosterRun("addAccount", id, isMaster, TRUE)
    /\ UNCHANGED <<clients, settings, positions, lastKnownPositions, tick, batch,
                   timers, intent, order>>

\* the last step of the add-account wizard: addAccount with
\* isMaster: configStorage.getAccounts().length === 1, then initClient
handleLeverageMax ==
    /\ \E id \in FreshIds :
         /\ accounts' = Append(accounts, id)
         /\ acct' = [acct EXCEPT ![id] = [enabled |-> TRUE,
                                          isMaster |-> Len(accounts) = 1
                                                         \/ accounts = <<>>]]
         /\ clients' = clients \cup {id}
         /\ lastRun' = RosterRun("wizard", id, Len(accounts) = 1, TRUE)
    /\ UNCHANGED <<settings, positions, lastKnownPositions, tick, batch,
                   timers, intent, order>>

\* the updates updateAccount is given: without isMaster (updateBalance gives
\* lastBalance only), or with isMaster true or false
Updates ==
    {[hasIsMaster |-> FALSE, isMaster |-> FALSE],
     [hasIsMaster |-> TRUE, isMaster |-> TRUE],
     [hasIsMaster |-> TRUE, isMaster |-> FALSE]}

\* updateAccount lines 668-686
updateAccount ==
    /\ \E id \in KnownOrNot, updates \in Updates :
         IF id \notin Range(accounts)
         THEN /\ UNCHANGED <<accounts, acct>>
              /\ lastRun' = RosterRun("updateAccount", id, updates.isMaster, FALSE)
         ELSE /\ UNCHANGED accounts
              /\ acct' = [a \in AccountIds |->
                            IF a = id
                            THEN IF updates.hasIsMaster
                                 THEN [acct[a] EXCEPT !.isMaster = updates.isMaster]
                                 ELSE acct[a]
                            ELSE IF updates.hasIsMaster /\ updates.isMaster
                                 THEN [acct[a] EXCEPT !.isMaster = FALSE]
                                 ELSE acct[a]]
              /\ lastRun' = RosterRun("updateAccount", id, updates.isMaster, TRUE)
    /\ UNCHANGED <<clients, settings, positions, lastKnownPositions, tick, batch,
                   timers, intent, order>>

\* deleteAccount lines 699-702: the first remaining account inherits mastership
PromoteLast(list, fn, wasMaster) ==
    IF wasMaster /\ list # <<>> THEN [fn EXCEPT ![list[Len(list)]].isMaster = TRUE]
    ELSE fn

PromoteFirst(list, fn, wasMaster) ==
    IF wasMaster /\ list # <<>> THEN [fn EXCEPT ![list[1]].isMaster = TRUE]
    ELSE fn

\* deleteAccount lines 691-705, called by the handler after removeClient; the
\* account object itself stays as it was for whoever still holds it
deleteAccount ==
    /\ \E id \in KnownOrNot :
         IF id \notin Range(accounts)
         THEN /\ UNCHANGED <<accounts, acct, clients>>
              /\ lastRun' = RosterRun("deleteAccount", id, FALSE, FALSE)
         ELSE /\ accounts' = Remove(accounts, id)
              /\ acct' = PromoteFirst(Remove(accounts, id), acct, acct[id].isMaster)
              /\ clients' = clients \ {id}
              /\ lastRun' = RosterRun("deleteAccount", id, FALSE, TRUE)
    /\ UNCHANGED <<settings, positions, lastKnownPositions, tick, batch,
                   timers, intent, order>>

\* setMasterAccount lines 710-720
setMasterAccount ==
    /\ \E id \in KnownOrNot :
         IF id \notin Range(accounts)
         THEN /\ UNCHANGED acct
              /\ lastRun' = RosterRun("setMasterAccount", id, FALSE, FALSE)
         ELSE /\ acct' = [a \in AccountIds |->
                            IF a \in Range(accounts)
                            THEN [acct[a] EXCEPT !.isMaster = (a = id)]
                            ELSE acct[a]]
              /\ lastRun' = RosterRun("setMasterAccount", id, FALSE, TRUE)
    /\ UNCHANGED <<accounts, clients, settings, positions, lastKnownPositions, tick,
                   batch, timers, intent, order>>

\* toggleAccount lines 725-732
toggleAccount ==
    /\ \E id \in KnownOrNot, enabled \in BOOLEAN :
         IF id \notin Range(accounts)
         THEN /\ UNCHANGED acct
              /\ lastRun' = RosterRun("toggleAccount", id, enabled, FALSE)
         ELSE /\ acct' = [acct EXCEPT ![id].enabled = enabled]
              /\ lastRun' = RosterRun("toggleAccount", id, enabled, TRUE)
    /\ UNCHANGED <<accounts, clients, settings, positions, lastKnownPositions, tick,
                   batch, timers, intent, order>>

(***************************************************************************)
(* Specification of the roster                                             *)
(***************************************************************************)
InitRoster ==
    /\ accounts = <<>>
    /\ acct = [a \in AccountIds |-> Absent]
    /\ clients = {}
    /\ settings = DefaultSettings
    /\ positions = [a \in AccountIds |-> {}]
    /\ lastKnownPositions = [a \in AccountIds |-> <<>>]
    /\ tick = IdleTick
    /\ batch = IdleBatch
    /\ timers = <<>>
    /\ lastRun = NoRun
    /\ intent = NoIntent
    /\ order = NoOrder

NextRoster ==
    \/ addAccount
    \/ handleLeverageMax
    \/ updateAccount
    \/ deleteAccount
    \/ setMasterAccount
    \/ toggleAccount

SpecRoster == InitRoster /\ [][NextRoster]_vars

(***************************************************************************)
(* Properties of the roster                                                *)
(***************************************************************************)
Masters == {a \in Range(accounts) : acct[a].isMaster}

\* C21: after any sequence of roster operations that leaves the roster
\* non-empty, exactly one account of the roster is master.
C21_ExactlyOneMaster ==
    accounts # <<>> => Cardinality(Masters) = 1

\* C22: addAccount on an empty roster makes the new account master whatever
\* isMaster flag it was given; deleteAccount of the master, when accounts remain,
\* makes the first remaining account master; deleteAccount with an unknown id
\* returns false and changes nothing.
C22_FirstAndInheritedMaster ==
    /\ (lastRun.kind \in {"addAccount", "wizard"} /\ lastRun.before = <<>>) =>
          accounts = <<lastRun.id>> /\ acct[lastRun.id].isMaster
    /\ (lastRun.kind = "deleteAccount" /\ lastRun.id \in Range(lastRun.before)) =>
          /\ lastRun.returned
          /\ accounts = Remove(lastRun.before, lastRun.id)
          /\ (lastRun.beforeAcct[lastRun.id].isMaster /\ accounts # <<>>) =>
                acct[accounts[1]].isMaster
    /\ (lastRun.kind = "deleteAccount" /\ lastRun.id \notin Range(lastRun.before)) =>
          /\ ~lastRun.returned
          /\ accounts = lastRun.before /\ acct = lastRun.beforeAcct

\* the master was deleted and the first of two remaining accounts, not a master
\* before, became master
C22_Witness ==
    /\ lastRun.kind = "deleteAccount" /\ lastRun.returned
    /\ lastRun.beforeAcct[lastRun.id].isMaster
    /\ Len(accounts) = 2
    /\ ~lastRun.beforeAcct[accounts[1]].isMaster
    /\ acct[accounts[1]].isMaster

(***************************************************************************)
(* settings.ts and bot.ts: the settings inputs                             *)
(***************************************************************************)
MaxSetting == 2

\* settings.ts line 241: max > 10000 is refused
DelayLimit == 10000

\* the numbers a user types or a callback carries
Numbers == (-1..MaxSetting) \cup {DelayLimit + 1}

\* the words of a message: the numbers in decimal, and a word that is no number
Words == {ToString(n) : n \in Numbers} \cup {"abc"}

\* parseInt(word, 10) / parseFloat(word)
parseInt(word) ==
    IF \E n \in Numbers : ToString(n) = word
    THEN [nan |-> FALSE, n |-> CHOOSE n \in Numbers : ToString(n) = word]
    ELSE [nan |-> TRUE, n |-> 0]

isNaN(v) == v.nan

\* text.trim().split(/\s+/) of the messages tried
DelayTexts == UNION {[1..n -> Words] : n \in 1..2}

SignalTexts ==
    {<<e, "1", lo, hi>> : e \in {"0", "abc"}, lo \in Words, hi \in Words}
        \cup {<<"0", "1", "2">>}

\* what the settings handler that just returned was given and found
SettingsRun(kind, accepted) ==
    [kind |-> kind, accepted |-> accepted, before |-> settings]

\* handleDelaysInput lines 229-265
handleDelaysInput ==
    /\ \E parts \in DelayTexts :
         IF Len(parts) # 2
         THEN /\ UNCHANGED settings
              /\ lastRun' = SettingsRun("handleDelaysInput", FALSE)
         ELSE LET min == parseInt(parts[1])
                  max == parseInt(parts[2])
              IN  IF isNaN(min) \/ isNaN(max) \/ min.n < 0 \/ max.n < min.n
                        \/ max.n > DelayLimit
                  THEN /\ UNCHANGED settings
                       /\ lastRun' = SettingsRun("handleDelaysInput", FALSE)
                  ELSE /\ settings' = [settings EXCEPT !.delayMinMs = min.n,
                                                       !.delayMaxMs = max.n]
                       /\ lastRun' = SettingsRun("handleDelaysInput", TRUE)
    /\ UNCHANGED <<accounts, acct, clients, positions, lastKnownPositions, tick,
                   batch, timers, intent, order>>

\* handleSignalsInput lines 319-363
handleSignalsInput ==
    /\ \E parts \in SignalTexts :
         IF Len(parts) # 4
         THEN /\ UNCHANGED settings
              /\ lastRun' = SettingsRun("handleSignalsInput", FALSE)
         ELSE LET entryOffset == parseInt(parts[1])
                  tpOffset == parseInt(parts[2])
                  cancelMin == parseInt(parts[3])
                  cancelMax == parseInt(parts[4])
              IN  IF isNaN(entryOffset) \/ isNaN(tpOffset) \/ isNaN(cancelMin)
                        \/ isNaN(cancelMax) \/ cancelMin.n < 0
                        \/ cancelMax.n < cancelMin.n
                  THEN /\ UNCHANGED settings
                       /\ lastRun' = SettingsRun("handleSignalsInput", FALSE)
                  ELSE /\ settings' = [settings EXCEPT
                                         !.signalEntryOffset = entryOffset.n,
                                         !.signalTpOffset = tpOffset.n,
                                         !.signalCancelTimeMin = cancelMin.n,
                                         !.signalCancelTimeMax = cancelMax.n]
                       /\ lastRun' = SettingsRun("handleSignalsInput", TRUE)
    /\ UNCHANGED <<accounts, acct, clients, positions, lastKnownPositions, tick,
                   batch, timers, intent, order>>

\* bot.ts lines 429-434: the set_delay_min_<value> callback
setDelayMin ==
    /\ \E value \in Numbers :
         /\ settings' = [settings EXCEPT !.delayMinMs = value]
         /\ lastRun' = SettingsRun("set_delay_min", TRUE)
    /\ UNCHANGED <<accounts, acct, clients, positions, lastKnownPositions, tick,
                   batch, timers, intent, order>>

\* bot.ts lines 436-441: the set_delay_max_<value> callback
setDelayMax ==
    /\ \E value \in Numbers :
         /\ settings' = [settings EXCEPT !.delayMaxMs = value]
         /\ lastRun' = SettingsRun("set_delay_max", TRUE)
    /\ UNCHANGED <<accounts, acct, clients, positions, lastKnownPositions, tick,
                   batch, timers, intent, order>>

(***************************************************************************)
(* Specification of the settings inputs                                    *)
(***************************************************************************)
InitSettings ==
    /\ accounts = <<>>
    /\ acct = [a \in AccountIds |-> Absent]
    /\ clients = {}
    /\ settings = DefaultSettings
    /\ positions = [a \in AccountIds |-> {}]
    /\ lastKnownPositions = [a \in AccountIds |-> <<>>]
    /\ tick = IdleTick
    /\ batch = IdleBatch
    /\ timers = <<>>
    /\ lastRun = NoRun
    /\ intent = NoIntent
    /\ order = NoOrder

NextSettings ==
    \/ handleDelaysInput
    \/ handleSignalsInput
    \/ setDelayMin
    \/ setDelayMax

SpecSettings == InitSettings /\ [][NextSettings]_vars

(***************************************************************************)
(* Properties of the settings inputs                                       *)
(***************************************************************************)
\* C23: after any sequence of settings updates through the text handlers and
\* the set_delay_min / set_delay_max callbacks the stored settings have
\* delayMinMs <= delayMaxMs and signalCancelTimeMin <= signalCancelTimeMax, and
\* an input that would violate this is refused and leaves the settings as they
\* were.
C23_BoundsStayOrdered ==
    /\ settings.delayMinMs <= settings.delayMaxMs
    /\ settings.signalCancelTimeMin <= settings.signalCancelTimeMax
    /\ (lastRun.kind \in {"handleDelaysInput", "handleSignalsInput",
                          "set_delay_min", "set_delay_max"}
          /\ ~lastRun.accepted) => settings = lastRun.before

(***************************************************************************)
(* signals.ts: parseTradeSignal and parseAlignSignal                       *)
(***************************************************************************)
MaxWords == 4

\* the words of a channel message
CheckMark == [t |-> "check"]
Ticker(name, usdt) == [t |-> "ticker", name |-> name, usdt |-> usdt]
PriceLabel(venue, dollar, digits) ==
    [t |-> "price", venue |-> venue, dollar |-> dollar, digits |-> digits]
Plain(w) == [t |-> "word", w |-> w]

\* "#btc_usdt", "#ETH", "Price DEX $1", "Price MEXC $2", "Price MEXC $0",
\* "Price MEXC $.", "Price MEXC 2", "long", "SHORT", "Long/Short", "Aligned" and
\* the check mark
Vocabulary ==
    {CheckMark, Ticker("btc", TRUE), Ticker("ETH", FALSE),
     PriceLabel("DEX", TRUE, "1"), PriceLabel("MEXC", TRUE, "2"),
     PriceLabel("MEXC", TRUE, "0"), PriceLabel("MEXC", TRUE, "."),
     PriceLabel("MEXC", FALSE, "2"),
     Plain("long"), Plain("SHORT"), Plain("Long/Short"), Plain("Aligned")}

Texts == UNION {[1..n -> Vocabulary] : n \in 0..MaxWords}

toUpperCase(w) ==
    CASE w = "btc" -> "BTC"
      [] w = "long" -> "LONG"
      [] w = "Long/Short" -> "LONG/SHORT"
      [] w = "Aligned" -> "ALIGNED"
      [] OTHER -> w

toLowerCase(w) ==
    CASE w = "ETH" -> "eth"
      [] w = "SHORT" -> "short"
      [] w = "Long/Short" -> "long/short"
      [] w = "Aligned" -> "aligned"
      [] w = "No" -> "no"
      [] OTHER -> w

\* parseFloat of the characters a price pattern captured
parseFloat(digits) ==
    CASE digits = "0" -> [nan |-> FALSE, n |-> 0]
      [] digits = "1" -> [nan |-> FALSE, n |-> 1]
      [] digits = "2" -> [nan |-> FALSE, n |-> 2]
      [] OTHER -> [nan |-> TRUE, n |-> 0]

\* String.match returns the leftmost match
First(S) == CHOOSE i \in S : \A k \in S : i <= k

\* the result of a parser that found no signal
Null == [matched |-> FALSE]

\* String.includes for the needles the parsers look for: the plain words of
\* the vocabulary that contain the needle
includes(w, needle) ==
    CASE needle = "LONG" -> w \in {"LONG", "LONG/SHORT"}
      [] needle = "SHORT" -> w \in {"SHORT", "LONG/SHORT"}
      [] OTHER -> w = needle

\* lines 61-70: upperText.includes('LONG') is tried before 'SHORT'
inferSideShortFirst(text) ==
    IF \E i \in DOMAIN text :
          text[i].t = "word" /\ includes(toUpperCase(text[i].w), "SHORT")
    THEN "short"
    ELSE IF \E i \in DOMAIN text :
          text[i].t = "word" /\ includes(toUpperCase(text[i].w), "LONG")
    THEN "long"
    ELSE "short"

inferSide(text) ==
    IF \E i \in DOMAIN text :
          text[i].t = "word" /\ includes(toUpperCase(text[i].w), "LONG")
    THEN "long"
    ELSE IF \E i \in DOMAIN text :
          text[i].t = "word" /\ includes(toUpperCase(text[i].w), "SHORT")
    THEN "short"
    ELSE "short"

\* lines 51-52: the places /Price\s+<VENUE>\s+\$([\d.]+)/i matches
LabelsOfAnyVenue(text, venue) ==
    {i \in DOMAIN text : text[i].t = "price" /\ text[i].dollar}

Labels(text, venue) ==
    {i \in DOMAIN text : text[i].t = "price" /\ text[i].venue = venue /\ text[i].dollar}

\* parseTradeSignal lines 43-79
parseTradeSignal(text) ==
    LET symbolAt == {i \in DOMAIN text : text[i].t = "ticker" /\ text[i].usdt}
        dexAt == Labels(text, "DEX")
        mexcAt == Labels(text, "MEXC")
    IN  IF symbolAt = {} THEN Null
        ELSE IF dexAt = {} \/ mexcAt = {} THEN Null
        ELSE LET symbol == toUpperCase(text[First(symbolAt)].name)
                 priceDex == parseFloat(text[First(dexAt)].digits)
                 priceMexc == parseFloat(text[First(mexcAt)].digits)
             IN  IF isNaN(priceDex) \/ isNaN(priceMexc) THEN Null
                 ELSE [matched |-> TRUE, symbol |-> symbol,
                       fullSymbol |-> <<symbol, "_USDT">>,
                       entryPrice |-> priceMexc.n, takeProfit |-> priceDex.n,
                       side |-> inferSide(text)]

\* line 90: text.toLowerCase().includes('aligned')
includesAlignedAlways(text) == TRUE

includesAligned(text) ==
    \E i \in DOMAIN text :
        text[i].t = "word" /\ includes(toLowerCase(text[i].w), "aligned")

\* parseAlignSignal lines 84-107
parseAlignSignal(text) ==
    LET symbolAt == {i \in DOMAIN text :
                       /\ text[i] = CheckMark
                       /\ i + 1 \in DOMAIN text /\ text[i + 1].t = "ticker"}
        priceAt == {i \in DOMAIN text :
                       /\ text[i].t = "price" /\ text[i].venue = "MEXC"
                       /\ text[i].digits # "."}
    IN  IF symbolAt = {} THEN Null
        ELSE IF ~includesAligned(text) THEN Null
        ELSE IF priceAt = {} THEN Null
        ELSE LET symbol == toUpperCase(text[First(symbolAt) + 1].name)
                 mexcPrice == parseFloat(text[First(priceAt)].digits)
             IN  IF isNaN(mexcPrice) \/ mexcPrice.n <= 0 THEN Null
                 ELSE [matched |-> TRUE, symbol |-> symbol,
                       fullSymbol |-> <<symbol, "_USDT">>,
                       mexcPrice |-> mexcPrice.n]

\* a message is given to one of the parsers
ParseTrade ==
    /\ intent # NoIntent /\ intent.family = "text" /\ order = NoOrder
    /\ order' = [flow |-> "parseTradeSignal", result |-> parseTradeSignal(intent.text)]
    /\ UNCHANGED <<accounts, acct, clients, settings, positions,
                   lastKnownPositions, tick, batch, timers, lastRun, intent>>

ParseAlign ==
    /\ intent # NoIntent /\ intent.family = "text" /\ order = NoOrder
    /\ order' = [flow |-> "parseAlignSignal", result |-> parseAlignSignal(intent.text)]
    /\ UNCHANGED <<accounts, acct, clients, settings, positions,
                   lastKnownPositions, tick, batch, timers, lastRun, intent>>

(***************************************************************************)
(* Specification of the parsers                                            *)
(***************************************************************************)
InitParse ==
    /\ accounts = <<>>
    /\ acct = [a \in AccountIds |-> Absent]
    /\ clients = {}
    /\ settings = DefaultSettings
    /\ positions = [a \in AccountIds |-> {}]
    /\ lastKnownPositions = [a \in AccountIds |-> <<>>]
    /\ tick = IdleTick
    /\ batch = IdleBatch
    /\ timers = <<>>
    /\ lastRun = NoRun
    /\ order = NoOrder
    /\ intent \in {[family |-> "text", text |-> text] : text \in Texts}

NextParse ==
    \/ ParseTrade
    \/ ParseAlign

SpecParse == InitParse /\ [][NextParse]_vars

(***************************************************************************)
(* Properties of the parsers                                               *)
(***************************************************************************)
Parsed(flow) == order # NoOrder /\ order.flow = flow

\* the message has the word, in this spelling
Has(word) == word \in Range(intent.text)

\* C24: parseTradeSignal takes the side to be long if the text contains LONG in
\* any letter case, also when SHORT appears too, and short otherwise.
C24_LongWinsElseShort ==
    (Parsed("parseTradeSignal") /\ order.result.matched) =>
        order.result.side = IF Has(Plain("long")) \/ Has(Plain("Long/Short"))
                            THEN "long" ELSE "short"

\* a recognized signal with both keywords is long
C24_Witness ==
    /\ Parsed("parseTradeSignal") /\ order.result.matched
    /\ Has(Plain("Long/Short"))
    /\ order.result.side = "long"

\* C25: parseTradeSignal returns a signal only for a text with a #<ALNUM>_USDT
\* ticker and both the DEX and the MEXC labeled price; the symbol is then the
\* upper-cased ticker without the suffix, entryPrice the MEXC price and
\* takeProfit the DEX price.
C25_SignalFromTickerAndLabels ==
    (Parsed("parseTradeSignal") /\ order.result.matched) =>
        /\ Has(Ticker("btc", TRUE))
        /\ order.result.symbol = "BTC"
        /\ order.result.fullSymbol = <<"BTC", "_USDT">>
        /\ \E i \in DOMAIN intent.text :
              /\ intent.text[i].t = "price" /\ intent.text[i].venue = "MEXC"
              /\ intent.text[i].dollar
              /\ intent.text[i].digits = ToString(order.result.entryPrice)
        /\ \E i \in DOMAIN intent.text :
              /\ intent.text[i].t = "price" /\ intent.text[i].venue = "DEX"
              /\ intent.text[i].dollar
              /\ intent.text[i].digits = ToString(order.result.takeProfit)

\* "#btc_usdt Price DEX $1 Price MEXC $2" in some order is recognized
C25_Witness ==
    /\ Parsed("parseTradeSignal") /\ order.result.matched
    /\ order.result.symbol = "BTC"
    /\ order.result.entryPrice = 2 /\ order.result.takeProfit = 1

\* C26: parseTradeSignal returns none unless both labeled prices are finite and
\* strictly greater than zero.
C26_PricesArePositive ==
    (Parsed("parseTradeSignal") /\ order.result.matched) =>
        order.result.entryPrice > 0 /\ order.result.takeProfit > 0

\* the ticker that follows the first check mark, and the first MEXC price
AlignTicker ==
    LET at == {i \in DOMAIN intent.text :
                 /\ intent.text[i] = CheckMark /\ i < Len(intent.text)
                 /\ intent.text[i + 1].t = "ticker"}
    IN  IF at = {} THEN "none" ELSE intent.text[First(at) + 1].name

AlignPrice ==
    LET at == {i \in DOMAIN intent.text :
                 /\ intent.text[i].t = "price" /\ intent.text[i].venue = "MEXC"
                 /\ intent.text[i].digits \in {"0", "1", "2"}}
    IN  IF at = {} THEN "none" ELSE intent.text[First(at)].digits

\* C27: parseAlignSignal returns an align signal exactly when the text has a
\* check mark followed by a #<ALNUM> ticker, the word aligned in any letter
\* case, and a labeled MEXC price that is finite and > 0.
C27_AlignIffAllThree ==
    Parsed("parseAlignSignal") =>
        /\ order.result.matched <=>
              /\ AlignTicker # "none"
              /\ Has(Plain("Aligned"))
              /\ AlignPrice \in {"1", "2"}
        /\ order.result.matched =>
              /\ order.result.symbol = toUpperCase(AlignTicker)
              /\ ToString(order.result.mexcPrice) = AlignPrice

\* an align message whose price label has no dollar sign is recognized
C27_Witness ==
    /\ Parsed("parseAlignSignal") /\ order.result.matched
    /\ order.result.symbol = "ETH"
    /\ ~Has(PriceLabel("MEXC", TRUE, "2"))
    /\ order.result.mexcPrice = 2

(***************************************************************************)
(* Properties of the position checks of the batches                        *)
(***************************************************************************)
\* the positions the account holds on the symbol of the batch
Holds(a) == {p \in positions[a] : p.symbol = BatchSymbol}

\* C28: in a signal batch an account that already holds a position on the
\* symbol gets no cancel call and no open order and is reported as failed with
\* 'already in position'; in manualClosePosition an account without a position
\* on the symbol gets no close order and is reported as failed with 'position
\* not found'.
C28_PositionCheckDecides ==
    /\ batch.op = "signal" =>
          /\ \A n \in 1..Len(batch.sent) : Holds(batch.sent[n].account) = {}
          /\ \A k \in 1..Len(batch.results) :
                (Holds(batch.results[k].accountId) # {}
                   /\ batch.results[k].message # MsgNoClient) =>
                    /\ ~batch.results[k].success
                    /\ batch.results[k].message = MsgInPosition
    /\ batch.op = "close" =>
          /\ \A n \in 1..Len(batch.sent) : Holds(batch.sent[n].account) # {}
          /\ \A k \in 1..Len(batch.results) :
                (Holds(batch.results[k].accountId) = {}
                   /\ batch.results[k].message # MsgNoClient) =>
                    /\ ~batch.results[k].success
                    /\ batch.results[k].message = MsgNotFound

(***************************************************************************)
(* Specification of a batch among account deletions and timer callbacks.   *)
(* A batch reads getSettings() and getEnabledAccounts() once, before its    *)
(* loop, into locals (batch.settings, batch.list); deleteAccount is the     *)
(* handler that reaches into what the loop reads afterwards: the client map *)
(***************************************************************************)
(***************************************************************************)
InitInterleave ==
    /\ accounts = <<"a1", "a2">>
    /\ acct = [a \in AccountIds |->
                 IF a = "a3" THEN Absent ELSE [enabled |-> TRUE, isMaster |-> (a = "a1")]]
    /\ clients = {"a1", "a2"}
    /\ settings = DefaultSettings
    /\ positions = [a \in AccountIds |->
                      IF a = "a1"
                      THEN {[symbol |-> BatchSymbol, side |-> "long", volume |-> 1]}
                      ELSE {}]
    /\ lastKnownPositions = [a \in AccountIds |-> <<>>]
    /\ tick = IdleTick
    /\ batch = IdleBatch
    /\ timers = <<>>
    /\ lastRun = NoRun
    /\ intent = NoIntent
    /\ order = NoOrder

NextInterleave ==
    \/ manualOpenPosition
    \/ manualClosePosition
    \/ setTpSlOnAll
    \/ handleTradeSignal
    \/ BatchLoop
    \/ BatchSleepDone
    \/ BatchQueryClose
    \/ BatchPrice
    \/ BatchSubmitReturn
    \/ BatchBackoffDone
    \/ BatchTpSl
    \/ BatchQuerySignal
    \/ BatchCancel
    \/ BatchSubmitReturnSignal
    \/ BatchReturn
    \/ TimerRun
    \/ deleteAccount

\* the steps of a running batch: at most one of them is enabled at a time
BatchStep ==
    \/ BatchLoop
    \/ BatchSleepDone
    \/ BatchQueryClose
    \/ BatchPrice
    \/ BatchSubmitReturn
    \/ BatchBackoffDone
    \/ BatchTpSl
    \/ BatchQuerySignal
    \/ BatchCancel
    \/ BatchSubmitReturnSignal

\* every exchange call and every timed wait of the batch returns
SpecInterleave ==
    /\ InitInterleave /\ [][NextInterleave]_vars
    /\ WF_vars(BatchStep)

\* the accounts whose iteration was entered are the first accounts of the list
VisitedInOrder ==
    /\ Len(batch.visited) <= Len(batch.list)
    /\ \A n \in 1..Len(batch.visited) : batch.visited[n] = batch.list[n]
    /\ batch.pc = "done" => batch.visited = batch.list

\* C29: a batch that was started returns, having entered the iteration of every
\* account of its list exactly once and in order, whatever account deletions
\* and timer callbacks run in between.
C29_BatchRunsToCompletion ==
    /\ []VisitedInOrder
    /\ (batch.pc # "idle") ~> (batch.pc = "done")

\* a batch is done with both accounts although the second was deleted while the
\* first was in hand
C29_Witness ==
    /\ batch.pc = "done" /\ batch.list = <<"a1", "a2">>
    /\ batch.visited = batch.list
    /\ "a2" \notin Range(accounts)
    /\ \E k \in 1..Len(batch.results) :
          /\ batch.results[k].accountId = "a2"
          /\ batch.results[k].message = MsgNoClient

(***************************************************************************)
(* Specification of the watcher with overlapping ticks: setInterval calls  *)
(* checkMasterChanges every intervalMs whether or not the earlier call has *)
(* returned                                                                *)
(***************************************************************************)
MaxPending == 1

\* the awaits of checkMasterChanges: getOpenPositions and the sleeps and
\* requests of the two copy loops
AwaitPoints == {"fetch", "copyOpen", "copyClose"}

Suspended(t) == [t EXCEPT !.pending = <<>>]

\* lines 50-52 and 71-78: the interval elapses while the invocation in hand is
\* at an await; a new invocation starts and sends its position request
TickOverlap ==
    /\ tick.pc \in AwaitPoints
    /\ Len(tick.pending) < MaxPending
    /\ getMasterAccount # NoAccount
    /\ getMasterAccount \in clients
    /\ tick' = [IdleTick EXCEPT !.pc = "fetch", !.master = getMasterAccount,
                                !.pending = Append(tick.pending, Suspended(tick))]
    /\ UNCHANGED <<accounts, acct, clients, settings, positions,
                   lastKnownPositions, batch, timers>>
    /\ lastRun' = NoRun
    /\ UNCHANGED <<intent, order>>

\* the await of a suspended invocation returns before the await of the one in
\* hand: the event loop continues the suspended one
TickSwitch ==
    /\ tick.pc \in AwaitPoints
    /\ \E n \in 1..Len(tick.pending) :
         tick' = [tick.pending[n] EXCEPT !.pending =
                     [tick.pending EXCEPT ![n] = Suspended(tick)]]
    /\ UNCHANGED <<accounts, acct, clients, settings, positions,
                   lastKnownPositions, batch, timers>>
    /\ lastRun' = NoRun
    /\ UNCHANGED <<intent, order>>

InitOverlap ==
    /\ accounts = <<"a1", "a2">>
    /\ acct = [a \in AccountIds |->
                 IF a = "a3" THEN Absent ELSE [enabled |-> TRUE, isMaster |-> (a = "a1")]]
    /\ clients = {"a1", "a2"}
    /\ settings = DefaultSettings
    /\ positions = [a \in AccountIds |-> {}]
    /\ lastKnownPositions = [a \in AccountIds |-> <<>>]
    /\ tick = IdleTick
    /\ batch = IdleBatch
    /\ timers = <<>>
    /\ lastRun = NoRun
    /\ intent = NoIntent
    /\ order = NoOrder

NextOverlap ==
    \/ MasterTrade
    \/ TickStart
    \/ TickOverlap
    \/ TickSwitch
    \/ TickFetch
    \/ TickOpens
    \/ TickCopyOpenStep
    \/ TickCloses
    \/ TickCopyCloseStep
    \/ TickReturn

SpecOverlap == InitOverlap /\ [][NextOverlap]_vars

\* the invocations of checkMasterChanges that have not returned
Invocations == <<Suspended(tick)>> \o tick.pending

\* the open requests the live invocations have sent for an account and a key
OpensSent(a, key) ==
    UNION { { <<i, n>> : n \in { m \in 1..Len(Invocations[i].sent) :
                                   /\ Invocations[i].sent[m].account = a
                                   /\ Invocations[i].sent[m].action = "open"
                                   /\ Invocations[i].sent[m].symbol = key[1]
                                   /\ Invocations[i].sent[m].side = key[2] } } :
            i \in 1..Len(Invocations) }

\* C30: the master's positions change only while no invocation is running, so
\* the open requests of the invocations that are live together belong to one
\* appearance of each key; a slave gets at most one of them per key.
C30_OneOpenPerAppearance ==
    \A a \in AccountIds, key \in MasterKeys : Cardinality(OpensSent(a, key)) <= 1

(***************************************************************************)
(* Specification of the watcher while mastership moves between two         *)
(* accounts that hold positions                                            *)
(***************************************************************************)
HeldByFirst ==
    { {}, {[symbol |-> "BTC_USDT", side |-> "long", volume |-> 1]},
      {[symbol |-> "BTC_USDT", side |-> "long", volume |-> 1],
       [symbol |-> "ETH_USDT", side |-> "short", volume |-> 2]} }

HeldBySecond ==
    { {}, {[symbol |-> "BTC_USDT", side |-> "long", volume |-> 2]} }

InitMaster ==
    /\ accounts = <<"a1", "a2">>
    /\ acct = [a \in AccountIds |->
                 IF a = "a3" THEN Absent ELSE [enabled |-> TRUE, isMaster |-> (a = "a1")]]
    /\ clients = {"a1", "a2"}
    /\ settings = DefaultSettings
    /\ positions \in
         { [a \in AccountIds |-> IF a = "a1" THEN s ELSE IF a = "a2" THEN t ELSE {}] :
             s \in HeldByFirst, t \in HeldBySecond }
    /\ lastKnownPositions = [a \in AccountIds |-> <<>>]
    /\ tick = IdleTick
    /\ batch = IdleBatch
    /\ timers = <<>>
    /\ lastRun = NoRun
    /\ intent = NoIntent
    /\ order = NoOrder

NextMaster ==
    \/ setMasterAccount
    \/ TickStart
    \/ TickFetch
    \/ TickOpens
    \/ TickCopyOpenStep
    \/ TickCloses
    \/ TickCopyCloseStep
    \/ TickReturn

SpecMaster == InitMaster /\ [][NextMaster]_vars

\* the open requests of the tick in hand for a key
OpensFor(key) ==
    {n \in 1..Len(tick.sent) :
        /\ tick.sent[n].action = "open"
        /\ tick.sent[n].symbol = key[1] /\ tick.sent[n].side = key[2]}

InitResting ==
    /\ accounts = <<"a1", "a2">>
    /\ acct = [a \in AccountIds |->
                 IF a = "a3" THEN Absent ELSE [enabled |-> TRUE, isMaster |-> (a = "a1")]]
    /\ clients = {"a1", "a2"}
    /\ settings = DefaultSettings
    /\ positions = [a \in AccountIds |-> {}]
    /\ lastKnownPositions = [a \in AccountIds |-> <<>>]
    /\ tick = IdleTick
    /\ batch = IdleBatch
    /\ timers = <<>>
    /\ lastRun = NoRun
    /\ intent = NoIntent
    /\ order = NoOrder

NextResting ==
    \/ handleTradeSignal
    \/ BatchLoop
    \/ BatchSleepDone
    \/ BatchQuerySignal
    \/ BatchCancel
    \/ BatchSubmitReturnSignal
    \/ BatchBackoffDone
    \/ BatchReturn
    \/ TimerRun

SpecResting == InitResting /\ [][NextResting]_vars

\* C32: the callback of a cancel timer sends no cancelAllOrders while a cancel
\* timer armed by a later signal for the same account is pending, that is,
\* while the order that later signal placed is resting.
C32_TimerSparesLaterOrder ==
    (lastRun.kind = "cancel" /\ lastRun.laterArmed) => lastRun.did # "cancelAll"

\* C33: a timer callback that sends a request (cancelAllOrders or closePosition)
\* does so for an account that is in the roster and enabled when it runs.
C33_TimersSpareRemovedAccounts ==
    (lastRun.kind \in {"cancel", "align"} /\ lastRun.did # "none")
    => /\ lastRun.account \in Range(accounts)
       /\ acct[lastRun.account].enabled

(***************************************************************************)
(* Specification of the watcher while mastership moves and the two         *)
(* replication toggles are flipped                                         *)
(***************************************************************************)
NextReplicate ==
    \/ setMasterAccount
    \/ toggleCopyMode("copyOpenPositions")
    \/ toggleCopyMode("copyClosePositions")
    \/ TickStart
    \/ TickFetch
    \/ TickOpens
    \/ TickCopyOpenStep
    \/ TickCloses
    \/ TickCopyCloseStep
    \/ TickReturn

SpecReplicate == InitMaster /\ [][NextReplicate]_vars

\* the accounts that are enabled and not master now
SlavesNow == {a \in Range(accounts) : acct[a].enabled /\ ~acct[a].isMaster}

\* C34: copyOpenPosition (copyClosePosition) goes on to its loop only when
\* replicate-open (replicate-close) is enabled at that moment, and the list it
\* walks holds exactly the accounts that are enabled and not master at that
\* moment; every request of a tick is sent inside such a loop, for an account of
\* that list, and is an open in the one loop and a close in the other.
C34_ReplicationOnlyOnSlaves ==
    [][/\ (tick.pc = "opens" /\ tick'.pc = "copyOpen")
            => /\ settings.copyOpenPositions
               /\ Range(tick'.slaves) = SlavesNow
       /\ (tick.pc = "closes" /\ tick'.pc = "copyClose")
            => /\ settings.copyClosePositions
               /\ Range(tick'.slaves) = SlavesNow
       /\ Len(tick'.sent) > Len(tick.sent)
            => /\ tick.pc \in {"copyOpen", "copyClose"}
               /\ tick'.sent = Append(tick.sent, tick'.sent[Len(tick'.sent)])
               /\ tick'.sent[Len(tick'.sent)].account \in Range(tick.slaves)
               /\ tick'.sent[Len(tick'.sent)].action =
                      IF tick.pc = "copyOpen" THEN "open" ELSE "close"]_vars

\* a tick that found two new positions: the first was handled with replicate-open
\* disabled and the second with it enabled, so one open was sent, to the slave
C34_Witness ==
    /\ tick.pc = "done" /\ tick.master = "a1"
    /\ Cardinality(Emitted("opened")) = 2
    /\ Len(tick.sent) = 1
    /\ tick.sent[1].account = "a2" /\ tick.sent[1].action = "open"
    /\ tick.sent[1].symbol = "ETH_USDT"
    /\ acct["a1"].isMaster

(***************************************************************************)
(* Specification of forwarded text: bot.on('text') with an idle session    *)
(* gives the text to processSignalText, which tries handleTradeSignal and   *)
(* then handleAlignSignal                                                  *)
(***************************************************************************)
ForwardedTexts ==
    { <<Ticker("btc", TRUE), PriceLabel("DEX", TRUE, "1"), PriceLabel("MEXC", TRUE, "2")>>,
      <<Ticker("btc", TRUE), PriceLabel("DEX", TRUE, "1"), PriceLabel("MEXC", TRUE, "2"),
        Plain("SHORT")>>,
      <<CheckMark, Ticker("btc", TRUE), PriceLabel("MEXC", TRUE, "2"), Plain("Aligned")>>,
      <<Ticker("btc", TRUE), PriceLabel("MEXC", TRUE, "2")>>,
      <<Plain("long")>> }

\* bot.ts 638-643 with signals.ts 112-121, 326-334 and 425-437: the text in hand
\* is forwarded; it starts a trade batch, an align batch, or nothing
onText ==
    /\ intent # NoIntent /\ intent.family = "text"
    /\ LET trade == parseTradeSignal(intent.text)
           align == parseAlignSignal(intent.text)
       IN  IF signalsEnabled(settings) /\ trade.matched
           THEN SignalStart("signal", trade.side)
           ELSE IF signalsEnabled(settings) /\ align.matched
           THEN SignalStart("align", "long")
           ELSE /\ lastRun' = [kind |-> "text", handled |-> FALSE]
                /\ UNCHANGED <<accounts, acct, clients, settings, positions,
                               lastKnownPositions, tick, batch, timers, intent, order>>

InitForward ==
    /\ accounts = <<"a1", "a2">>
    /\ acct = [a \in AccountIds |->
                 IF a = "a3" THEN Absent ELSE [enabled |-> TRUE, isMaster |-> (a = "a1")]]
    /\ clients = {"a1", "a2"}
    /\ settings \in {[DefaultSettings EXCEPT !.signalsEnabled = e] : e \in BOOLEAN}
    /\ positions = [a \in AccountIds |->
                      IF a = "a1"
                      THEN {[symbol |-> BatchSymbol, side |-> "long", volume |-> 1]}
                      ELSE {}]
    /\ lastKnownPositions = [a \in AccountIds |-> <<>>]
    /\ tick = IdleTick
    /\ batch = IdleBatch
    /\ timers = <<>>
    /\ lastRun = NoRun
    /\ intent \in {[family |-> "text", text |-> t] : t \in ForwardedTexts}
    /\ order = NoOrder

NextForward ==
    \/ onText
    \/ toggleCopyMode("signalsEnabled")
    \/ BatchLoop
    \/ BatchSleepDone
    \/ BatchQuerySignal
    \/ BatchCancel
    \/ BatchSubmitReturnSignal
    \/ BatchBackoffDone
    \/ BatchQueryAlign
    \/ BatchReturn
    \/ TimerRun

SpecForward == InitForward /\ [][NextForward]_vars

\* C35: a batch starts only while signalsEnabled is true and only for a text
\* one of the parsers matches (a trade batch if parseTradeSignal matches, else
\* an align batch); a text handled otherwise changes nothing; requests are sent
\* and timers are armed only by a batch that was started.
C35_IgnoredTextDoesNothing ==
    [][/\ (batch.pc = "idle" /\ batch'.pc # "idle")
            => /\ settings.signalsEnabled
               /\ IF parseTradeSignal(intent.text).matched
                  THEN batch'.op = "signal"
                  ELSE parseAlignSignal(intent.text).matched /\ batch'.op = "align"
       /\ (lastRun'.kind = "text" /\ ~lastRun'.handled)
            => /\ \/ ~settings.signalsEnabled
                  \/ /\ ~parseTradeSignal(intent.text).matched
                     /\ ~parseAlignSignal(intent.text).matched
               /\ UNCHANGED <<batch, timers, positions>>
       /\ Len(batch'.sent) > Len(batch.sent) => batch.pc # "idle"
       /\ Len(timers') > Len(timers) => batch.pc # "idle"]_vars

\* a trade signal was forwarded while signals were off and nothing was started
C35_Witness ==
    /\ lastRun.kind = "text" /\ ~lastRun.handled
    /\ ~settings.signalsEnabled
    /\ parseTradeSignal(intent.text).matched
    /\ batch = IdleBatch /\ timers = <<>>

(***************************************************************************)
(* Close orders of the manual close batch and the exchange side codes      *)
(***************************************************************************)
\* the positions of the close orders sent so far for account a
ClosedFor(a) ==
    { [symbol |-> batch.sent[n].symbol, side |-> batch.sent[n].side,
       volume |-> batch.sent[n].vol] :
        n \in {m \in 1..Len(batch.sent) : batch.sent[m].account = a} }

\* the positions read for the account in hand that are still to be closed
StillToClose ==
    IF batch.held = <<>> THEN {}
    ELSE IF batch.pc = "price" THEN Range(batch.held)
    ELSE Range(Tail(batch.held))

\* C36: in a close batch every order is a close of a position the account holds,
\* with that position's side and volume and with side code 4 for a long and 2
\* for a short; no position is closed twice; an account whose positions were
\* read gets one order for each of them; orders that open use code 1 for a long
\* and 3 for a short; mexcCodeToSide undoes sideToMexcCode on all four
\* combinations.
C36_OneCloseOrderPerPosition ==
    /\ \A side \in Sides, action \in {"open", "close"} :
         mexcCodeToSide(sideToMexcCode(side, action)) =
            [side |-> side, action |-> action]
    /\ \A n \in 1..Len(batch.sent) :
         LET r == batch.sent[n] IN
         /\ r.action = "open" => r.sideCode = (IF r.side = "long" THEN 1 ELSE 3)
         /\ r.action = "close" => r.sideCode = (IF r.side = "long" THEN 4 ELSE 2)
         /\ r.action \in {"open", "close"} =>
              r.sideCode = sideToMexcCode(r.side, r.action)
    /\ batch.op = "close" =>
         /\ \A n \in 1..Len(batch.sent) :
              LET r == batch.sent[n] IN
              /\ r.action = "close"
              /\ [symbol |-> r.symbol, side |-> r.side, volume |-> r.vol]
                    \in positions[r.account]
              /\ \A m \in 1..Len(batch.sent) :
                   (batch.sent[m].account = r.account /\ batch.sent[m].side = r.side)
                      => m = n
         /\ \A k \in 1..Len(batch.list) :
              LET a == batch.list[k] IN
              /\ k < batch.i =>
                   \/ ClosedFor(a) = positions[a]
                   \/ /\ ClosedFor(a) = {}
                      /\ \/ a \notin clients
                         \/ \E j \in 1..Len(batch.results) :
                              /\ batch.results[j].accountId = a
                              /\ batch.results[j].message = MsgNotFound
              /\ (k = batch.i /\ batch.held # <<>>) =>
                   /\ ClosedFor(a) \cup StillToClose = positions[a]
                   /\ ClosedFor(a) \cap StillToClose = {}

\* a finished close batch in which the account holding a long of volume 2 and
\* a short of volume 1 got one order for each, with codes 4 and 2
C36_Witness ==
    /\ batch.op = "close" /\ batch.pc = "done"
    /\ \E n, m \in 1..Len(batch.sent) :
         /\ batch.sent[n].account = "a2" /\ batch.sent[m].account = "a2"
         /\ batch.sent[n].side = "long" /\ batch.sent[n].vol = 2
         /\ batch.sent[n].sideCode = 4
         /\ batch.sent[m].side = "short" /\ batch.sent[m].vol = 1
         /\ batch.sent[m].sideCode = 2
    /\ Cardinality({n \in 1..Len(batch.sent) : batch.sent[n].account = "a2"}) = 2

(***************************************************************************)
(* accounts.ts: the add-account wizard                                     *)
(***************************************************************************)
\* the texts typed into the wizard
WizardTexts ==
    {"Main", "LongName51", "WEB-token64", "WEB-short", "http://proxy", "ftp://proxy",
     "No", "abc", "-1", "0", "0.5", "1", "1.5", "3", "200", "201", "100000",
     "100001"}

\* text.length
TextLength(t) ==
    CASE t = "LongName51" -> 51
      [] t = "WEB-token64" -> 64
      [] OTHER -> 9

\* helpers.ts isValidAuthToken line 238
isValidAuthToken(token) ==
    token \in {"WEB-token64", "WEB-short"} /\ TextLength(token) >= 60

\* helpers.ts isValidProxyUrl lines 244-251: new URL() throws on a text that is
\* no URL, and the protocol of a URL must be one of the four
isValidProxyUrl(url) ==
    /\ url \in {"http://proxy", "ftp://proxy"}
    /\ url = "http://proxy"

\* the number a text denotes, in tenths; the texts that denote none parse to NaN
Tenths(t) ==
    CASE t = "-1" -> -10
      [] t = "0" -> 0
      [] t = "0.5" -> 5
      [] t = "1" -> 10
      [] t = "1.5" -> 15
      [] t = "3" -> 30
      [] t = "200" -> 2000
      [] t = "201" -> 2010
      [] t = "100000" -> 1000000
      [] t = "100001" -> 1000010
      [] OTHER -> 0

IsNumber(t) ==
    t \in {"-1", "0", "0.5", "1", "1.5", "3", "200", "201", "100000", "100001"}

\* parseFloat(text): the value in tenths
parseFloatTenths(t) ==
    IF IsNumber(t) THEN [nan |-> FALSE, n |-> Tenths(t)] ELSE [nan |-> TRUE, n |-> 0]

\* parseInt(text, 10): the digits before the point
parseIntText(t) ==
    IF IsNumber(t)
    THEN [nan |-> FALSE,
          n |-> IF Tenths(t) < 0 THEN -((-Tenths(t)) \div 10) ELSE Tenths(t) \div 10]
    ELSE [nan |-> TRUE, n |-> 0]

\* the session of the user: its state and, in the wizard, the fields of
\* session.data.newAccount filled so far
Session(state, data) == [family |-> "session", state |-> state, data |-> data]

NoData == [k \in {} |-> 0]

\* accounts.ts resetSession lines 32-38
IdleSession == Session("idle", NoData)

\* obj[key] = value
With(data, key, value) ==
    [k \in DOMAIN data \cup {key} |-> IF k = key THEN value ELSE data[k]]

\* the states of the wizard, in the order of its prompts
WizardOrder ==
    <<"waiting_account_name", "waiting_auth_token", "waiting_proxy",
      "waiting_max_position", "waiting_leverage_min", "waiting_leverage_max">>

\* what the input handler that just returned was given
WizardRun(text, added) ==
    [kind |-> "wizardInput", state |-> intent.state, text |-> text, added |-> added]

\* startAddAccount lines 102-120
startAddAccount ==
    /\ intent' = Session("waiting_account_name", NoData)
    /\ lastRun' = NoRun
    /\ UNCHANGED <<accounts, acct, clients, settings, positions, lastKnownPositions,
                   tick, batch, timers, order>>

\* bot.ts lines 250-251: the main-menu callback resets the session
menuMain ==
    /\ intent' = IdleSession
    /\ lastRun' = NoRun
    /\ UNCHANGED <<accounts, acct, clients, settings, positions, lastKnownPositions,
                   tick, batch, timers, order>>

\* settings.ts showDelaysSettings lines 38-45: another flow takes the session
showDelaysSettings ==
    /\ intent' = Session("waiting_setting_value", NoData)
    /\ lastRun' = NoRun
    /\ UNCHANGED <<accounts, acct, clients, settings, positions, lastKnownPositions,
                   tick, batch, timers, order>>

\* handleAccountName line 156
validAccountName(text) == ~(TextLength(text) < 1 \/ TextLength(text) > 50)

\* handleProxy line 211: the words that skip the proxy ("net" stands for the
\* Russian word)
SkipWords == {"net", "no", "-", "skip"}

\* handleMaxPosition line 244
validMaxPosition(value) == ~(isNaN(value) \/ value.n <= 0 \/ value.n > 100000 * 10)

\* handleLeverageMin line 269
validLeverageMin(value) == ~(isNaN(value) \/ value.n < 1 \/ value.n > 200)

\* a last step that does not compare with the minimum
validLeverageMaxNoMin(value, minLev) == ~(isNaN(value) \/ value.n > 200)

\* handleLeverageMax line 293
validLeverageMax(value, minLev) ==
    ~(isNaN(value) \/ value.n < minLev \/ value.n > 200)

\* the session after a step that accepted the text: the field is stored and the
\* next prompt is awaited
Advance(key, value, next) ==
    /\ intent' = Session(next, With(intent.data, key, value))
    /\ UNCHANGED <<accounts, acct, clients>>

\* a step that refused the text: a reply, and nothing else
Refuse == UNCHANGED <<intent, accounts, acct, clients>>

\* handleAccountInput lines 125-153 with the six handlers it dispatches to,
\* lines 155-330
handleAccountInput ==
    /\ intent.family = "session"
    /\ \E text \in WizardTexts :
         LET d == intent.data
             run == WizardRun(text, NoData)
         IN
         CASE intent.state = "waiting_account_name" ->
                /\ IF validAccountName(text)
                   THEN Advance("name", text, "waiting_auth_token")
                   ELSE Refuse
                /\ lastRun' = run
           [] intent.state = "waiting_auth_token" ->
                /\ IF isValidAuthToken(text)
                   THEN Advance("authToken", text, "waiting_proxy")
                   ELSE Refuse
                /\ lastRun' = run
           [] intent.state = "waiting_proxy" ->
                /\ IF toLowerCase(text) \in SkipWords
                   THEN /\ intent' = Session("waiting_max_position", d)
                        /\ UNCHANGED <<accounts, acct, clients>>
                   ELSE IF isValidProxyUrl(text)
                   THEN Advance("proxyUrl", text, "waiting_max_position")
                   ELSE Refuse
                /\ lastRun' = run
           [] intent.state = "waiting_max_position" ->
                /\ IF validMaxPosition(parseFloatTenths(text))
                   THEN Advance("maxPositionUsd", parseFloatTenths(text).n,
                                "waiting_leverage_min")
                   ELSE Refuse
                /\ lastRun' = run
           [] intent.state = "waiting_leverage_min" ->
                /\ IF validLeverageMin(parseIntText(text))
                   THEN Advance("leverageMin", parseIntText(text).n,
                                "waiting_leverage_max")
                   ELSE Refuse
                /\ lastRun' = run
           [] intent.state = "waiting_leverage_max" ->
                LET value == parseIntText(text)
                    minLev == IF "leverageMin" \in DOMAIN d /\ d["leverageMin"] # 0
                              THEN d["leverageMin"] ELSE 1
                IN  IF ~validLeverageMax(value, minLev)
                    THEN Refuse /\ lastRun' = run
                    ELSE \E id \in FreshIds :
                           /\ accounts' = Append(accounts, id)
                           /\ acct' = [acct EXCEPT ![id] =
                                          [enabled |-> TRUE,
                                           isMaster |-> Len(accounts) = 1
                                                          \/ accounts = <<>>]]
                           /\ clients' = clients \cup {id}
                           /\ intent' = IdleSession
                           /\ lastRun' = WizardRun(text,
                                            With(d, "leverageMax", value.n))
           [] OTHER ->
                /\ Refuse
                /\ lastRun' = [run EXCEPT !.kind = "notHandled"]
    /\ UNCHANGED <<settings, positions, lastKnownPositions, tick, batch, timers,
                   order>>

(***************************************************************************)
(* Specification of the add-account wizard                                 *)
(***************************************************************************)
InitWizard ==
    /\ accounts = <<>>
    /\ acct = [a \in AccountIds |-> Absent]
    /\ clients = {}
    /\ settings = DefaultSettings
    /\ positions = [a \in AccountIds |-> {}]
    /\ lastKnownPositions = [a \in AccountIds |-> <<>>]
    /\ tick = IdleTick
    /\ batch = IdleBatch
    /\ timers = <<>>
    /\ lastRun = NoRun
    /\ intent = IdleSession
    /\ order = NoOrder

NextWizard ==
    \/ startAddAccount
    \/ handleAccountInput
    \/ menuMain
    \/ showDelaysSettings

SpecWizard == InitWizard /\ [][NextWizard]_vars

\* what the prompts of the wizard ask for
AskedFor(state, text, data) ==
    CASE state = "waiting_account_name" -> TextLength(text) \in 1..50
      [] state = "waiting_auth_token" -> text = "WEB-token64"
      [] state = "waiting_proxy" -> text \in {"No", "http://proxy"}
      [] state = "waiting_max_position" ->
           IsNumber(text) /\ Tenths(text) > 0 /\ Tenths(text) <= 1000000
      [] state = "waiting_leverage_min" ->
           IsNumber(text) /\ Tenths(text) >= 10 /\ Tenths(text) < 2010
      [] state = "waiting_leverage_max" ->
           IsNumber(text) /\ Tenths(text) >= 10 * data["leverageMin"]
                          /\ Tenths(text) < 2010
      [] OTHER -> FALSE

\* C37: the wizard's states are entered only from the state before them, in the
\* order of the prompts, and an input ends the wizard only at its last state;
\* an input that is not what the prompt asks for changes neither the session
\* nor the roster; the roster grows only at the last step, by one account with
\* 1 <= leverageMin <= leverageMax <= 200 and 0 < maxPositionUsd <= 100000.
C37_WizardStepsInOrder ==
    [][ /\ (intent'.state # intent.state
              /\ \E k \in 2..6 : intent'.state = WizardOrder[k])
           => \E k \in 1..5 : /\ intent.state = WizardOrder[k]
                              /\ intent'.state = WizardOrder[k + 1]
        /\ (lastRun'.kind = "wizardInput" /\ intent'.state # intent.state
              /\ intent'.state = "idle")
           => intent.state = WizardOrder[6]
        /\ (lastRun'.kind = "wizardInput"
              /\ ~AskedFor(intent.state, lastRun'.text, intent.data))
           => /\ intent' = intent
              /\ accounts' = accounts /\ acct' = acct /\ clients' = clients
        /\ accounts' # accounts
           => /\ intent.state = WizardOrder[6] /\ intent'.state = "idle"
              /\ Len(accounts') = Len(accounts) + 1
              /\ SubSeq(accounts', 1, Len(accounts)) = accounts
              /\ LET added == lastRun'.added IN
                 /\ 1 <= added["leverageMin"]
                 /\ added["leverageMin"] <= added["leverageMax"]
                 /\ added["leverageMax"] <= 200
                 /\ 0 < added["maxPositionUsd"]
                 /\ added["maxPositionUsd"] <= 100000 * 10
      ]_vars

\* the wizard just added a second account, with a position limit of 0.5 USD
\* and the leverage range 3..200
C37_Witness ==
    /\ lastRun.kind = "wizardInput" /\ lastRun.state = "waiting_leverage_max"
    /\ intent = IdleSession
    /\ Len(accounts) = 2
    /\ "proxyUrl" \notin DOMAIN lastRun.added
    /\ lastRun.added["maxPositionUsd"] = 5
    /\ lastRun.added["leverageMin"] = 3 /\ lastRun.added["leverageMax"] = 200

(***************************************************************************)
(* trading.ts: the TP/SL price inputs                                      *)
(***************************************************************************)
\* the texts typed as a price
PriceTexts == {"No", "skip", "abc", "-1", "0", "0.5", "3"}

\* session.data of the TP/SL flow: symbol, side and, for input_both, inputBoth
TpSlData(side, both) ==
    IF both THEN [symbol |-> BatchSymbol, side |-> side, inputBoth |-> TRUE]
    ELSE [symbol |-> BatchSymbol, side |-> side]

\* startTpInput lines 246-253
startTpInput ==
    /\ \E side \in Sides : intent' = Session("waiting_tp_price", TpSlData(side, FALSE))
    /\ lastRun' = NoRun
    /\ UNCHANGED <<accounts, acct, clients, settings, positions, lastKnownPositions,
                   tick, batch, timers, order>>

\* startSlInput lines 269-276
startSlInput ==
    /\ \E side \in Sides : intent' = Session("waiting_sl_price", TpSlData(side, FALSE))
    /\ lastRun' = NoRun
    /\ UNCHANGED <<accounts, acct, clients, settings, positions, lastKnownPositions,
                   tick, batch, timers, order>>

\* startBothTpSlInput lines 292-299
startBothTpSlInput ==
    /\ \E side \in Sides : intent' = Session("waiting_tp_price", TpSlData(side, TRUE))
    /\ lastRun' = NoRun
    /\ UNCHANGED <<accounts, acct, clients, settings, positions, lastKnownPositions,
                   tick, batch, timers, order>>

\* handleTpSlInput line 326
isSkip(text) == toLowerCase(text) \in SkipWords

\* handleTpSlInput lines 331 and 356
invalidPrice(price) == isNaN(price) \/ price.n <= 0

\* an applyTpSl that never finds nothing to set
nothingToSetNever(params) == FALSE

\* applyTpSl line 383: `!takeProfit && !stopLoss`
nothingToSet(params) ==
    "takeProfit" \notin DOMAIN params /\ "stopLoss" \notin DOMAIN params

\* what the price handler that just returned was given
PriceRun(text, handled) ==
    [kind |-> "tpslInput", state |-> intent.state, text |-> text, handled |-> handled]

\* applyTpSl lines 378-386: the session is reset, and unless there is nothing
\* to set the call goes on to its start message and to setTpSlOnAll
applyTpSl(side, params) ==
    /\ intent' = IdleSession
    /\ order' = IF nothingToSet(params) THEN order
                ELSE [flow |-> "applyTpSl", side |-> side, params |-> params]

\* handleTpSlInput lines 316-366, with applyTpSl up to its first await; one
\* applyTpSl call is in flight at a time
handleTpSlInput ==
    /\ intent.family = "session"
    /\ order = NoOrder
    /\ \E text \in PriceTexts :
         LET d == intent.data
             price == parseFloatTenths(text)
         IN
         IF "symbol" \notin DOMAIN d \/ "side" \notin DOMAIN d
         THEN /\ UNCHANGED <<intent, order>>
              /\ lastRun' = PriceRun(text, FALSE)
         ELSE IF intent.state = "waiting_tp_price"
         THEN /\ lastRun' = PriceRun(text, TRUE)
              /\ IF ~isSkip(text) /\ invalidPrice(price)
                 THEN UNCHANGED <<intent, order>>
                 ELSE LET data == IF isSkip(text) THEN d ELSE With(d, "tp", price.n)
                      IN  IF "inputBoth" \in DOMAIN d
                          THEN /\ intent' = Session("waiting_sl_price", data)
                               /\ UNCHANGED order
                          ELSE applyTpSl(d["side"],
                                         IF "tp" \in DOMAIN data
                                         THEN With(NoData, "takeProfit", data["tp"])
                                         ELSE NoData)
         ELSE IF intent.state = "waiting_sl_price"
         THEN /\ lastRun' = PriceRun(text, TRUE)
              /\ IF ~isSkip(text) /\ invalidPrice(price)
                 THEN UNCHANGED <<intent, order>>
                 ELSE LET tp == IF "tp" \in DOMAIN d
                                THEN With(NoData, "takeProfit", d["tp"]) ELSE NoData
                      IN  applyTpSl(d["side"],
                                    IF isSkip(text) THEN tp
                                    ELSE With(tp, "stopLoss", price.n))
         ELSE /\ UNCHANGED <<intent, order>>
              /\ lastRun' = PriceRun(text, FALSE)
    /\ UNCHANGED <<accounts, acct, clients, settings, positions, lastKnownPositions,
                   tick, batch, timers>>

\* applyTpSl lines 388-402: after the start message, copyTradingEngine.setTpSlOnAll
applyTpSlCall ==
    /\ order.flow = "applyTpSl"
    /\ batch.pc = "idle"
    /\ batch' = [IdleBatch EXCEPT !.op = "tpsl", !.pc = "loop", !.side = order.side,
                                  !.list = getEnabledAccounts,
                                  !.settings = settings]
    /\ order' = NoOrder
    /\ lastRun' = [kind |-> "applyTpSl", params |-> order.params]
    /\ UNCHANGED <<accounts, acct, clients, settings, positions, lastKnownPositions,
                   tick, timers, intent>>

(***************************************************************************)
(* Specification of the TP/SL price inputs                                 *)
(***************************************************************************)
InitTpSl ==
    /\ accounts = <<"a1", "a2">>
    /\ acct = [a \in AccountIds |->
                 IF a = "a3" THEN Absent ELSE [enabled |-> TRUE, isMaster |-> a = "a1"]]
    /\ clients = {"a1", "a2"}
    /\ settings = DefaultSettings
    /\ positions = [a \in AccountIds |->
                      IF a = "a1"
                      THEN {[symbol |-> BatchSymbol, side |-> "long", volume |-> 1]}
                      ELSE {}]
    /\ lastKnownPositions = [a \in AccountIds |-> <<>>]
    /\ tick = IdleTick
    /\ batch = IdleBatch
    /\ timers = <<>>
    /\ lastRun = NoRun
    /\ intent = IdleSession
    /\ order = NoOrder

NextTpSl ==
    \/ startTpInput
    \/ startSlInput
    \/ startBothTpSlInput
    \/ showDelaysSettings
    \/ menuMain
    \/ handleTpSlInput
    \/ applyTpSlCall
    \/ BatchLoop
    \/ BatchSleepDone
    \/ BatchTpSl
    \/ BatchReturn

SpecTpSl == InitTpSl /\ [][NextTpSl]_vars

\* C38: a setTpSlOnAll batch starts only as the one call of an applyTpSl that
\* an accepted price input began, and that input reset the session to idle
\* first; with inputBoth an accepted or skipped TP answer leads to the SL prompt
\* and applies nothing; an input that leaves neither a TP nor an SL starts no
\* batch; a price that is no positive number leaves the session as it was.
C38_TpSlAppliedOncePerSequence ==
    [][ /\ (batch.pc = "idle" /\ batch'.pc # "idle")
           => /\ order.flow = "applyTpSl" /\ order' = NoOrder
              /\ batch'.op = "tpsl" /\ batch'.side = order.side
              /\ DOMAIN order.params # {}
        /\ (order = NoOrder /\ order' # NoOrder)
           => /\ lastRun'.kind = "tpslInput"
              /\ intent.state \in {"waiting_tp_price", "waiting_sl_price"}
              /\ intent' = IdleSession
              /\ batch' = batch
        /\ lastRun'.kind = "tpslInput" /\ lastRun'.handled
           => LET text == lastRun'.text
                  skipped == text \in {"No", "skip"}
                  bad == ~skipped /\ (~IsNumber(text) \/ Tenths(text) <= 0)
              IN  /\ bad => (intent' = intent /\ order' = order /\ batch' = batch)
                  /\ (~bad /\ intent.state = "waiting_tp_price"
                        /\ "inputBoth" \in DOMAIN intent.data)
                     => /\ intent'.state = "waiting_sl_price"
                        /\ order' = order /\ batch' = batch
                  /\ (skipped /\ "tp" \notin DOMAIN intent.data
                        /\ (intent.state = "waiting_sl_price"
                              \/ "inputBoth" \notin DOMAIN intent.data))
                     => (intent' = IdleSession /\ order' = order /\ batch' = batch)
      ]_vars

\* a batch just started for an SL alone, with the session back at idle
C38_Witness ==
    /\ batch.op = "tpsl" /\ batch.pc = "loop" /\ batch.i = 1
    /\ order = NoOrder /\ intent = IdleSession
    /\ lastRun.kind = "applyTpSl" /\ DOMAIN lastRun.params = {"stopLoss"}

(***************************************************************************)
(* bot.ts: the authorization middleware                                    *)
(***************************************************************************)
\* bot.ts line 66: the configured Telegram user id
AUTH_USER_ID == 1

\* ctx.from?.id of the updates received: 0 stands for an update without a
\* sender, the others are the authorized user and a stranger
Senders == {0, AUTH_USER_ID, AUTH_USER_ID + 1}

\* a middleware that lets every update through
passesAnyone(userId) == TRUE

\* bot.use lines 92-99: next() is called unless `userId !== AUTH_USER_ID`
passes(userId) == ~(userId = 0 \/ userId # AUTH_USER_ID)

\* an update arrives and goes through the middleware, which is registered
\* before every handler: order holds the update and whether next() was called
botUse ==
    /\ \E userId \in Senders :
         order' = [flow |-> "update", userId |-> userId, next |-> passes(userId),
                   handled |-> FALSE]
    /\ lastRun' = NoRun
    /\ UNCHANGED <<accounts, acct, clients, settings, positions, lastKnownPositions,
                   tick, batch, timers, intent>>

\* the handler the update is routed to by next(): commands, callbacks and texts
\* that change the session, the settings or the roster or start a batch
botHandler ==
    /\ order.flow = "update" /\ order.next /\ ~order.handled
    /\ order' = [order EXCEPT !.handled = TRUE]
    /\ \/ /\ \E state \in {"idle", "waiting_account_name"} :
               intent' = Session(state, NoData)
          /\ lastRun' = NoRun
          /\ UNCHANGED <<accounts, acct, clients, settings, batch>>
       \/ /\ \E mode \in {"copyOpenPositions", "signalsEnabled"} :
               settings' = [settings EXCEPT ![mode] = ~@]
          /\ lastRun' = NoRun
          /\ UNCHANGED <<accounts, acct, clients, intent, batch>>
       \/ /\ \E id \in Range(accounts), enabled \in BOOLEAN :
               /\ acct' = [acct EXCEPT ![id].enabled = enabled]
               /\ lastRun' = RosterRun("toggleAccount", id, enabled, TRUE)
          /\ UNCHANGED <<accounts, clients, settings, intent, batch>>
       \/ /\ \E id \in Range(accounts) :
               /\ accounts' = Remove(accounts, id)
               /\ acct' = PromoteFirst(Remove(accounts, id), acct, acct[id].isMaster)
               /\ clients' = clients \ {id}
               /\ lastRun' = RosterRun("deleteAccount", id, FALSE, TRUE)
          /\ UNCHANGED <<settings, intent, batch>>
       \/ /\ batch.pc = "idle"
          /\ \E hasPrice \in BOOLEAN :
               batch' = [IdleBatch EXCEPT !.op = "close", !.pc = "loop",
                                          !.hasPrice = hasPrice,
                                          !.list = getEnabledAccounts,
                                          !.settings = settings]
          /\ lastRun' = NoRun
          /\ UNCHANGED <<accounts, acct, clients, settings, intent>>
    /\ UNCHANGED <<positions, lastKnownPositions, tick, timers>>

(***************************************************************************)
(* Specification of the updates and their handlers                         *)
(***************************************************************************)
InitAuth ==
    /\ accounts = <<"a1", "a2">>
    /\ acct = [a \in AccountIds |->
                 IF a = "a3" THEN Absent ELSE [enabled |-> TRUE, isMaster |-> a = "a1"]]
    /\ clients = {"a1", "a2"}
    /\ settings = DefaultSettings
    /\ positions = [a \in AccountIds |->
                      IF a = "a1"
                      THEN {[symbol |-> BatchSymbol, side |-> "long", volume |-> 1]}
                      ELSE {}]
    /\ lastKnownPositions = [a \in AccountIds |-> <<>>]
    /\ tick = IdleTick
    /\ batch = IdleBatch
    /\ timers = <<>>
    /\ lastRun = NoRun
    /\ intent = IdleSession
    /\ order = NoOrder

NextAuth ==
    \/ botUse
    \/ botHandler
    \/ BatchLoop
    \/ BatchSleepDone
    \/ BatchQueryClose
    \/ BatchPrice
    \/ BatchSubmitReturn
    \/ BatchBackoffDone
    \/ BatchReturn

SpecAuth == InitAuth /\ [][NextAuth]_vars

\* C39: while the update in hand comes from anyone but the authorized user,
\* no step changes the roster, the clients, the settings or the session or
\* starts a batch, and a request is sent to the exchange only by a batch that
\* an authorized update started.
C39_StrangersReachNoHandler ==
    [][ /\ (order.flow = "update" /\ order.userId # AUTH_USER_ID)
           => /\ accounts' = accounts /\ acct' = acct /\ clients' = clients
              /\ settings' = settings /\ intent' = intent
              /\ batch.pc = "idle" => batch'.pc = "idle"
        /\ (order'.flow = "update" /\ order'.userId # AUTH_USER_ID /\ order' # order)
           => /\ accounts' = accounts /\ acct' = acct /\ clients' = clients
              /\ settings' = settings /\ intent' = intent
              /\ batch' = batch /\ timers' = timers
        /\ Len(batch'.sent) > Len(batch.sent) => batch.pc # "idle"
      ]_vars

\* a stranger's update is in hand after the authorized user changed the
\* settings, the session and the roster
C39_Witness ==
    /\ order.flow = "update" /\ order.userId = AUTH_USER_ID + 1 /\ ~order.next
    /\ ~settings.signalsEnabled /\ intent.state = "waiting_account_name"
    /\ accounts = <<"a2">> /\ batch.pc = "submit"

(***************************************************************************)
(* CopyTradingEngine.startMonitoring / stopMonitoring                      *)
(***************************************************************************)
\* the interval timers the runtime can hand out at a time
MaxIntervals == 2

IntervalIds == 1..MaxIntervals

\* copyTrader.ts line 35: pollInterval = null
NoInterval == 0

\* the engine's isRunning and pollInterval, and the interval timers that are
\* installed in the runtime
Monitor(isRunning, pollInterval, installed) ==
    [flow |-> "monitor", isRunning |-> isRunning, pollInterval |-> pollInterval,
     installed |-> installed]

\* a start that installs a timer whether or not one is running
alreadyRunningIgnored(m) == FALSE

\* startMonitoring lines 42-45: `if (this.isRunning) return`
alreadyRunning(m) == m.isRunning

\* startMonitoring lines 41-53
startMonitoring ==
    /\ order.flow = "monitor"
    /\ IF alreadyRunning(order)
       THEN UNCHANGED order
       ELSE \E id \in IntervalIds \ order.installed :
              order' = Monitor(TRUE, id, order.installed \cup {id})
    /\ lastRun' = [kind |-> "startMonitoring", wasRunning |-> order.isRunning]
    /\ UNCHANGED <<accounts, acct, clients, settings, positions, lastKnownPositions,
                   tick, batch, timers, intent>>

\* stopMonitoring lines 58-65
stopMonitoring ==
    /\ order.flow = "monitor"
    /\ order' = IF order.pollInterval # NoInterval
                THEN Monitor(FALSE, NoInterval, order.installed \ {order.pollInterval})
                ELSE Monitor(FALSE, order.pollInterval, order.installed)
    /\ lastRun' = [kind |-> "stopMonitoring", wasRunning |-> order.isRunning]
    /\ UNCHANGED <<accounts, acct, clients, settings, positions, lastKnownPositions,
                   tick, batch, timers, intent>>

\* lines 50-52: an installed interval timer fires and its callback calls
\* checkMasterChanges
PollTick ==
    /\ order.flow = "monitor"
    /\ order.installed # {}
    /\ TickStart

(***************************************************************************)
(* Specification of the monitoring switch                                  *)
(***************************************************************************)
InitMonitor ==
    /\ accounts = <<"a1", "a2">>
    /\ acct = [a \in AccountIds |->
                 IF a = "a3" THEN Absent ELSE [enabled |-> TRUE, isMaster |-> a = "a1"]]
    /\ clients = {"a1", "a2"}
    /\ settings = DefaultSettings
    /\ positions = [a \in AccountIds |-> {}]
    /\ lastKnownPositions = [a \in AccountIds |-> <<>>]
    /\ tick = IdleTick
    /\ batch = IdleBatch
    /\ timers = <<>>
    /\ lastRun = NoRun
    /\ intent = NoIntent
    /\ order = Monitor(FALSE, NoInterval, {})

NextMonitor ==
    \/ startMonitoring
    \/ stopMonitoring
    \/ PollTick
    \/ MasterTrade
    \/ TickFetch
    \/ TickOpens
    \/ TickCopyOpenStep
    \/ TickCloses
    \/ TickCopyCloseStep
    \/ TickReturn

SpecMonitor == InitMonitor /\ [][NextMonitor]_vars

\* at most one interval timer is installed, it is the one pollInterval holds,
\* and isRunning tells whether there is one
OneTimer ==
    /\ Cardinality(order.installed) <= 1
    /\ order.isRunning <=> order.pollInterval # NoInterval
    /\ order.installed =
          IF order.pollInterval = NoInterval THEN {} ELSE {order.pollInterval}

\* C40: at most one poll timer is installed and isRunning is true exactly when
\* one is; startMonitoring while running changes nothing; a polling tick starts
\* only while monitoring is running, so none starts between stopMonitoring and
\* the next startMonitoring.
C40_OnePollTimer ==
    /\ []OneTimer
    /\ [][ /\ (lastRun'.kind = "startMonitoring" /\ order.isRunning)
              => (order' = order /\ tick' = tick)
           /\ lastRun'.kind = "stopMonitoring"
              => (~order'.isRunning /\ order'.installed = {})
           /\ (tick.pc = "idle" /\ tick'.pc # "idle")
              => (order.isRunning /\ order' = order)
         ]_vars

\* monitoring has just been started with one timer installed, while a tick of
\* an earlier run is still in flight
C40_Witness ==
    /\ lastRun.kind = "startMonitoring" /\ ~lastRun.wasRunning
    /\ order.isRunning /\ Cardinality(order.installed) = 1
    /\ tick.pc \in {"copyOpen", "closes"}

====
